---- MODULE Spec2Model ----
(***************************************************************************)
(* StreamForge backend: the donation pipeline.                             *)
(*   - GameStateManager (game-state.ts)  : the session state machine       *)
(*   - DonationQueue (donation-queue.ts) : FIFO queue + per-kind cooldowns *)
(*   - StreamForgeEventProcessor         : admission and the 1 Hz tick     *)
(*   - RateLimiter (rate-limiter.ts)     : global / per-user fixed windows *)
(*   - GameWebSocketServer (websocket-server.ts) : registry and fan-out    *)
(*   - GameStateSyncService (overlay-sync.ts) : the 1 Hz overlay refresh   *)
(* Time is Date.now() in milliseconds, held in the variable now.           *)
(***************************************************************************)
EXTENDS Integers, Sequences, FiniteSets, TLC

VARIABLES
    now,            \* Date.now(), ms
    gameState,      \* GameStateManager.gameState
    notified,       \* states handed to the subscribed listener by the last operation
    returned,       \* snapshot returned by the last GameStateManager operation
    lastOp,         \* the last operation and what it was given
    nextSpawn,      \* stands for the random suffix of spawnId
    queue,          \* DonationQueue.queue
    cooldowns,      \* DonationQueue.cooldowns
    totalProcessedCount, \* DonationQueue.totalProcessedCount
    isProcessing,   \* StreamForgeEventProcessor.isProcessing
    nextId,         \* donations created so far (donationId is unique per donation)
    lastResult,     \* result of the last enqueue / processEvent / dequeue / peek / remove
    admitted,       \* per viewer, the times of that viewer's admissions
    lastAdmit,      \* per kind, the time of its last admission (-1: none)
    dequeued,       \* donationId of the last event that dequeue returned
    globalState,    \* RateLimiter.globalState
    userStates,     \* RateLimiter.userStates
    recorded,       \* recordDonation calls since the global window started
    passTimes,      \* per viewer, the instants of its admitted donations
    lastCheck,      \* result of the last RateLimiter.checkLimit
    pending,        \* the event applications a tick is awaiting
    sockets,        \* server.clients: per socket its transport state
    socketToClient, \* GameWebSocketServer.socketToClient (the sockets mapped)
    connectedClients, \* GameWebSocketServer.connectedClients
    published,      \* messages handed to broadcast() by the last handler
    delivered,      \* per socket, the messages the last handler wrote to it
    pinged,         \* the sockets the last health check pinged
    held,           \* per socket, the last state snapshot written to it (<<>>: none)
    overlayClients, \* GameStateSyncService.overlayClients
    lastSentState,  \* GameStateSyncService.lastSentState (<<>>: null)
    syncOp,         \* the last operation of the sync service
    syncSent,       \* the clients the last operation of the sync service wrote to
    processing,     \* DonationQueue.processing
    inFlight,       \* the ids of the events whose handler has not settled
    handled,        \* the ids handed to the handler of processQueue, in order
    drainOp         \* the last step of processQueue

gsmVars == <<gameState, notified, returned, lastOp, nextSpawn>>
queueVars == <<queue, cooldowns, totalProcessedCount, isProcessing, nextId,
               lastResult, admitted, lastAdmit, dequeued, pending>>
rlVars == <<globalState, userStates, recorded, lastCheck, passTimes>>
hubVars == <<sockets, socketToClient, connectedClients, published, delivered,
             pinged, held>>
svcVars == <<overlayClients, lastSentState, syncOp, syncSent>>
drainVars == <<processing, inFlight, handled, drainOp>>
vars == <<now, gsmVars, queueVars, rlVars, hubVars, svcVars, drainVars>>

-----------------------------------------------------------------------------
(* Bounds of the model *)
MaxExpiry == 3000
MaxScore == 10
MaxWave == 2
MaxSpawns == 1
MaxDonations == 4
MaxQueued == 3
MaxRecorded == 4
MaxClients == 2
MaxActive == 1
MaxPipeline == 2
MaxPasses == 7

\* the instants at which the clock is observed
ShortInstants == {0, 1000, 2000}
OnceInstants == {0, 1000}
CooldownInstants == {0, 1000, 5000, 30000}
WindowInstants == {0, 30000, 60000, 90000}
SweepInstants == {0, 80000}
LongInstants == {0, 60000, 130000, 200000}
BurstInstants == {0, 30000, 60000, 90000, 220000}
PingInstants == {0, 20000, 30000, 50000, 60000, 80000, 90000}

(* Configuration: the defaults of config.ts loadConfig *)
boostCooldown == 1
spawnEnemyCooldown == 5
spawnDragonCooldown == 30
donationRateLimit == 10
donationPerUserLimit == 3
donationRateWindow == 60000
connectionTimeout == 60000
pingInterval == 30000

BASE_KNIGHT_ATTACK == 20

EventTypes == {"BOOST", "SPAWN_ENEMY", "HEAL", "SPAWN_DRAGON"}
\* a kind outside DonationEventType
UnknownType == "SHIELD"
Viewers == {"alice", "bob"}
Statuses == {"RUNNING", "PAUSED", "STOPPED"}

Min(a, b) == IF a < b THEN a ELSE b
Max(a, b) == IF a > b THEN a ELSE b

\* Math.round(num / den) for den > 0: nearest integer, halves towards +infinity
MathRound(num, den) == (2 * num + den) \div (2 * den)

-----------------------------------------------------------------------------
(* GameWebSocketServer: the registry of subscribers and the fan-out *)

Sockets == 1..MaxClients

\* readyState of a socket of server.clients; BROKEN is a socket that reads
\* OPEN and whose send throws, NONE a socket that is not in server.clients
Transports == {"NONE", "OPEN", "BROKEN", "CLOSING"}

\* an entry of connectedClients (ConnectionState), or its absence
NoClient == [present |-> FALSE, clientType |-> "", lastPing |-> 0, isAlive |-> FALSE]

ConnectionState(clientType) ==
    [present |-> TRUE, clientType |-> clientType, lastPing |-> now, isAlive |-> TRUE]

Message(type, excludeType, donationId) ==
    [type |-> type, excludeType |-> excludeType, donationId |-> donationId]

\* broadcastGameState: the snapshot, not sent back to game clients
GameStateBroadcast == Message("game_state_broadcast", "game", 0)

\* broadcastDonation: the raw donation, to everybody
DonationEventMessage(donationId) == Message("donation_event", "", donationId)

\* x is a member of the sequence
Has(seq, x) == \E i \in 1..Len(seq) : seq[i] = x

\* handleMessage: a message of a registered client refreshes its lastPing
touch(reg, sender) ==
    IF sender \in Sockets /\ reg[sender].present
    THEN [reg EXCEPT ![sender].lastPing = now]
    ELSE reg

\* broadcast skips a socket whose client entry has the excluded clientType
excluded(s, msg, reg) ==
    /\ msg.excludeType # ""
    /\ s \in socketToClient
    /\ reg[s].present
    /\ reg[s].clientType = msg.excludeType

\* variant: the fan-out stops at the first socket whose write fails
written_untilFailure(s, msg, reg) ==
    /\ sockets[s] = "OPEN"
    /\ ~excluded(s, msg, reg)
    /\ \A r \in 1..(s - 1) : sockets[r] \notin {"BROKEN", "CLOSING"}

\* the sockets broadcast writes the message to
written(s, msg, reg) ==
    /\ sockets[s] = "OPEN"
    /\ ~excluded(s, msg, reg)

\* variant: only the sockets whose write throws are collected
deadClients_thrownOnly(msg, reg) ==
    {s \in socketToClient :
        /\ sockets[s] = "BROKEN"
        /\ ~excluded(s, msg, reg)}

\* the client ids broadcast collects in deadClients: the socket is not open
\* or its send threw, and the socket still maps to a client id
deadClients(msg, reg) ==
    {s \in socketToClient :
        /\ sockets[s] \in {"BROKEN", "CLOSING"}
        /\ ~excluded(s, msg, reg)}

\* broadcast, once per message: write to the sockets, then drop the dead
\* clients from both maps
broadcast(msgs, sender) ==
    LET reg == touch(connectedClients, sender)
        dead == UNION {deadClients(msgs[i], reg) : i \in 1..Len(msgs)}
        got(s) == LET w(m) == written(s, m, reg)
                      sel == SelectSeq(msgs, w)
                  IN  [i \in 1..Len(sel) |-> sel[i].type]
    IN  /\ published' = msgs
        /\ delivered' = [s \in Sockets |->
                            IF sockets[s] = "NONE" THEN <<>> ELSE got(s)]
        /\ held' = [s \in Sockets |->
                       IF sockets[s] # "NONE" /\ Has(got(s), "game_state_broadcast")
                       THEN <<gameState'>> ELSE held[s]]
        /\ connectedClients' = [s \in Sockets |->
                                  IF s \in dead THEN NoClient ELSE reg[s]]
        /\ socketToClient' = socketToClient \ dead
        /\ pinged' = {}
        /\ UNCHANGED sockets

\* a handler that broadcasts nothing
noBroadcast ==
    /\ published' = <<>>
    /\ delivered' = [s \in Sockets |-> <<>>]
    /\ pinged' = {}
    /\ UNCHANGED <<sockets, socketToClient, connectedClients, held>>

-----------------------------------------------------------------------------
(* GameStateManager *)

createInitialState(t) ==
    [status |-> "STOPPED",
     knightHealth |-> 100,
     knightAttack |-> BASE_KNIGHT_ATTACK,
     score |-> 0,
     wave |-> 1,
     boostActive |-> FALSE,
     boostExpiry |-> 0,
     activeDonations |-> <<>>,
     pendingEnemySpawns |-> <<>>,
     startTime |-> 0,
     lastUpdated |-> t]

\* {...this.gameState, ...updates, lastUpdated: Date.now()}
Merge(gs, updates) ==
    [f \in DOMAIN gs |->
        IF f = "lastUpdated" THEN now
        ELSE IF f \in DOMAIN updates THEN updates[f] ELSE gs[f]]

\* setState: store the merged state, then hand a copy to the listener, which
\* is the server's broadcastGameState
setState(updates, op) ==
    /\ gameState' = Merge(gameState, updates)
    /\ notified' = <<gameState'>>
    /\ returned' = gameState'
    /\ lastOp' = op
    /\ broadcast(<<GameStateBroadcast>>, op.sender)

\* resetGame: replace the state by the initial one, then notify
resetGame(op) ==
    /\ gameState' = createInitialState(now)
    /\ notified' = <<createInitialState(now)>>
    /\ returned' = createInitialState(now)
    /\ lastOp' = op
    /\ broadcast(<<GameStateBroadcast>>, op.sender)

\* what the last operation was and what it was given: death when the health
\* it was given is <= 0, a and b its arguments, prevActive and prevExpiry the
\* boost it found, sender the socket whose message asked for it (0: none)
Op(name, death, a, b) ==
    [name |-> name, death |-> death, a |-> a, b |-> b,
     prevActive |-> FALSE, prevExpiry |-> 0, sender |-> 0]

Clamp(lo, hi, x) == Max(lo, Min(hi, x))

\* variant: the clamped health is stored as it is, 0 included
updateKnightHealth_noReset(health, op) ==
    setState([knightHealth |-> Clamp(0, 100, health)], op)

updateKnightHealth(health, op) ==
    IF Clamp(0, 100, health) = 0
    THEN resetGame(op)
    ELSE setState([knightHealth |-> Clamp(0, 100, health)], op)

boostedAttack(boostPercent) ==
    MathRound(BASE_KNIGHT_ATTACK * (100 + boostPercent), 100)

\* variant: every boost runs from now
finalExpiry_fromNow(gs, durationSeconds) ==
    now + durationSeconds * 1000

finalExpiry(gs, durationSeconds) ==
    IF gs.boostActive /\ gs.boostExpiry > now
    THEN gs.boostExpiry + durationSeconds * 1000
    ELSE now + durationSeconds * 1000

applyBoost(durationSeconds, boostPercent, op) ==
    setState([knightAttack |-> boostedAttack(boostPercent),
              boostActive |-> TRUE,
              boostExpiry |-> finalExpiry(gameState, durationSeconds)], op)

removeBoost(op) ==
    setState([knightAttack |-> BASE_KNIGHT_ATTACK,
              boostActive |-> FALSE,
              boostExpiry |-> 0], op)

\* variant: the spawn does not say which donation it comes from
newSpawn_noSource(enemyType, donorName, donationId) ==
    [spawnId |-> nextSpawn,
     enemyType |-> enemyType,
     donorName |-> donorName,
     donationId |-> 0,
     createdAt |-> now]

newSpawn(enemyType, donorName, donationId) ==
    [spawnId |-> nextSpawn,
     enemyType |-> enemyType,
     donorName |-> donorName,
     donationId |-> donationId,
     createdAt |-> now]

addEnemySpawn(enemyType, donorName, donationId, op) ==
    /\ setState([pendingEnemySpawns |->
                    Append(gameState.pendingEnemySpawns,
                           newSpawn(enemyType, donorName, donationId))], op)
    /\ nextSpawn' = nextSpawn + 1

removeEnemySpawn(spawnId, op) ==
    LET keep(sp) == sp.spawnId # spawnId
    IN  setState([pendingEnemySpawns |->
                     SelectSeq(gameState.pendingEnemySpawns, keep)], op)

\* an optional field of an update: {} when absent, {v} when present
Opt(S) == {{}} \cup {{v} : v \in S}
Val(o) == CHOOSE v \in o : TRUE

\* variant: the health-0 state is published before the reset
updateFromGame_notifyTwice(h, sc, w, st, op) ==
    IF h # {} /\ Clamp(0, 100, Val(h)) = 0
    THEN /\ gameState' = createInitialState(now)
         /\ notified' = <<Merge(gameState, [knightHealth |-> 0]),
                          createInitialState(now)>>
         /\ returned' = createInitialState(now)
         /\ lastOp' = op
         /\ broadcast(<<GameStateBroadcast, GameStateBroadcast>>, op.sender)
    ELSE setState(
           [knightHealth |-> IF h # {} THEN Clamp(0, 100, Val(h))
                             ELSE gameState.knightHealth,
            score |-> IF sc # {} THEN Max(0, Val(sc)) ELSE gameState.score,
            wave |-> IF w # {} THEN Max(1, Val(w)) ELSE gameState.wave,
            status |-> IF st # {} THEN Val(st) ELSE gameState.status], op)

\* variant: the score and the wave are merged as they come
updateFromGame_raw(h, sc, w, st, op) ==
    IF h # {} /\ Clamp(0, 100, Val(h)) = 0
    THEN resetGame(op)
    ELSE setState(
           [knightHealth |-> IF h # {} THEN Clamp(0, 100, Val(h))
                             ELSE gameState.knightHealth,
            score |-> IF sc # {} THEN Val(sc) ELSE gameState.score,
            wave |-> IF w # {} THEN Val(w) ELSE gameState.wave,
            status |-> IF st # {} THEN Val(st) ELSE gameState.status], op)

\* updateFromGame: clamp what is present, reset on health 0, else merge
updateFromGame(h, sc, w, st, op) ==
    IF h # {} /\ Clamp(0, 100, Val(h)) = 0
    THEN resetGame(op)
    ELSE setState(
           [knightHealth |-> IF h # {} THEN Clamp(0, 100, Val(h))
                             ELSE gameState.knightHealth,
            score |-> IF sc # {} THEN Max(0, Val(sc)) ELSE gameState.score,
            wave |-> IF w # {} THEN Max(1, Val(w)) ELSE gameState.wave,
            status |-> IF st # {} THEN Val(st) ELSE gameState.status], op)

-----------------------------------------------------------------------------
(* Inputs of the operations *)
Durations == {1, 2}
Percents == {25, 50}
HealthInputs == {-5, 0, 40, 150}
AttackInputs == {150}
ScoreInputs == {-1, 10}
PointInputs == {-15, 10}
WaveInputs == {0, 2}
EnemyTypes == {"GOBLIN"}

\* the updates the game client sends: each field present or absent
Update(h, sc, w, st) == [knightHealth |-> h, score |-> sc, wave |-> w, status |-> st]

GameUpdates ==
    {Update({}, {}, {}, {}),
     Update({-5}, {}, {}, {}),
     Update({0}, {10}, {2}, {"RUNNING"}),
     Update({40}, {}, {}, {}),
     Update({150}, {-1}, {}, {}),
     Update({}, {10}, {0}, {}),
     Update({}, {}, {2}, {"RUNNING"}),
     Update({40}, {10}, {2}, {"PAUSED"})}

-----------------------------------------------------------------------------
(* Operations of GameStateManager as called from outside *)

StartGame ==
    /\ setState([status |-> "RUNNING", startTime |-> now],
                Op("startGame", FALSE, 0, 0))
    /\ UNCHANGED <<nextSpawn, now, queueVars, rlVars, svcVars, drainVars>>

\* variant: pausing also ends the boost
PauseGame_endsBoost ==
    /\ setState([status |-> "PAUSED", boostActive |-> FALSE, boostExpiry |-> 0,
                 knightAttack |-> BASE_KNIGHT_ATTACK],
                Op("pauseGame", FALSE, 0, 0))
    /\ UNCHANGED <<nextSpawn, now, queueVars, rlVars, svcVars, drainVars>>

PauseGame ==
    /\ setState([status |-> "PAUSED"], Op("pauseGame", FALSE, 0, 0))
    /\ UNCHANGED <<nextSpawn, now, queueVars, rlVars, svcVars, drainVars>>

ResumeGame ==
    /\ setState([status |-> "RUNNING"], Op("resumeGame", FALSE, 0, 0))
    /\ UNCHANGED <<nextSpawn, now, queueVars, rlVars, svcVars, drainVars>>

StopGame ==
    /\ setState([status |-> "STOPPED"], Op("stopGame", FALSE, 0, 0))
    /\ UNCHANGED <<nextSpawn, now, queueVars, rlVars, svcVars, drainVars>>

ResetGame ==
    /\ resetGame(Op("resetGame", FALSE, 0, 0))
    /\ UNCHANGED <<nextSpawn, now, queueVars, rlVars, svcVars, drainVars>>

UpdateKnightHealth ==
    \E h \in HealthInputs :
        /\ updateKnightHealth(h, Op("updateKnightHealth", h <= 0, 0, 0))
        /\ UNCHANGED <<nextSpawn, now, queueVars, rlVars, svcVars, drainVars>>

UpdateKnightAttack ==
    \E a \in AttackInputs :
        /\ setState([knightAttack |-> Clamp(0, 100, a)],
                    Op("updateKnightAttack", FALSE, 0, 0))
        /\ UNCHANGED <<nextSpawn, now, queueVars, rlVars, svcVars, drainVars>>

\* variant: the score is stored as given
updateScore_raw(score, op) == setState([score |-> score], op)

updateScore(score, op) == setState([score |-> Max(0, score)], op)

UpdateScore ==
    \E s \in ScoreInputs :
        /\ updateScore(s, Op("updateScore", FALSE, 0, 0))
        /\ UNCHANGED <<nextSpawn, now, queueVars, rlVars, svcVars, drainVars>>

AddScore ==
    \E pts \in PointInputs :
        /\ gameState.score + pts <= MaxScore
        /\ updateScore(gameState.score + pts, Op("addScore", FALSE, 0, 0))
        /\ UNCHANGED <<nextSpawn, now, queueVars, rlVars, svcVars, drainVars>>

NextWave ==
    /\ gameState.wave < MaxWave
    /\ setState([wave |-> gameState.wave + 1], Op("nextWave", FALSE, 0, 0))
    /\ UNCHANGED <<nextSpawn, now, queueVars, rlVars, svcVars, drainVars>>

ApplyBoost ==
    \E d \in Durations, p \in Percents :
        /\ finalExpiry(gameState, d) <= MaxExpiry
        /\ applyBoost(d, p, [Op("applyBoost", FALSE, d, p) EXCEPT
                                !.prevActive = gameState.boostActive,
                                !.prevExpiry = gameState.boostExpiry])
        /\ UNCHANGED <<nextSpawn, now, queueVars, rlVars, svcVars, drainVars>>

RemoveBoost ==
    /\ removeBoost(Op("removeBoost", FALSE, 0, 0))
    /\ UNCHANGED <<nextSpawn, now, queueVars, rlVars, svcVars, drainVars>>

CheckBoostExpiry ==
    /\ IF gameState.boostActive /\ now >= gameState.boostExpiry
       THEN removeBoost(Op("checkBoostExpiry", FALSE, 0, 0))
       ELSE /\ returned' = gameState
            /\ notified' = <<>>
            /\ lastOp' = Op("checkBoostExpiry", FALSE, 0, 0)
            /\ noBroadcast
            /\ UNCHANGED gameState
    /\ UNCHANGED <<nextSpawn, now, queueVars, rlVars, svcVars, drainVars>>

AddEnemySpawn ==
    \E e \in EnemyTypes :
        /\ nextSpawn <= MaxSpawns
        /\ addEnemySpawn(e, "alice", 0, Op("addEnemySpawn", FALSE, 0, 0))
        /\ UNCHANGED <<now, queueVars, rlVars, svcVars, drainVars>>

RemoveEnemySpawn ==
    \E i \in 1..Len(gameState.pendingEnemySpawns) :
        /\ removeEnemySpawn(gameState.pendingEnemySpawns[i].spawnId,
                            Op("removeEnemySpawn", FALSE, 0, 0))
        /\ UNCHANGED <<nextSpawn, now, queueVars, rlVars, svcVars, drainVars>>

\* variant: the list is replaced without going through setState
addActiveDonation_silent(donation, op) ==
    /\ gameState' = [gameState EXCEPT
                        !.activeDonations = Append(@, donation)]
    /\ returned' = [gameState EXCEPT
                       !.activeDonations = Append(@, donation)]
    /\ notified' = <<>>
    /\ lastOp' = op
    /\ noBroadcast

addActiveDonation(donation, op) ==
    setState([activeDonations |-> Append(gameState.activeDonations, donation)], op)

removeDonation(donationId, op) ==
    LET keep(d) == d.donationId # donationId
    IN  setState([activeDonations |->
                     SelectSeq(gameState.activeDonations, keep)], op)

AddActiveDonation ==
    /\ Len(gameState.activeDonations) < MaxActive
    /\ addActiveDonation([donationId |-> Len(gameState.activeDonations) + 1,
                          viewerName |-> "alice", eventType |-> "BOOST"],
                         Op("addActiveDonation", FALSE, 0, 0))
    /\ UNCHANGED <<nextSpawn, now, queueVars, rlVars, svcVars, drainVars>>

RemoveDonation ==
    \E id \in 1..MaxActive :
        /\ removeDonation(id, Op("removeDonation", FALSE, 0, 0))
        /\ UNCHANGED <<nextSpawn, now, queueVars, rlVars, svcVars, drainVars>>

UpdateFromGame ==
    \E u \in GameUpdates :
        /\ updateFromGame(u.knightHealth, u.score, u.wave, u.status,
               Op("updateFromGame",
                  u.knightHealth # {} /\ Val(u.knightHealth) <= 0, 0, 0))
        /\ UNCHANGED <<nextSpawn, now, queueVars, rlVars, svcVars, drainVars>>

\* the game client's game_state_update message reporting the knight's health
HandleGameStateUpdate ==
    \E h \in {-5, 40} :
        /\ updateFromGame({h}, {}, {}, {}, Op("updateFromGame", h <= 0, 0, 0))
        /\ UNCHANGED <<nextSpawn, now, queueVars, rlVars, svcVars, drainVars>>

\* the clock moves on to a later instant; nothing else happens
AdvanceShort ==
    /\ \E t \in ShortInstants : t > now /\ now' = t
    /\ lastOp' = Op("advance", FALSE, 0, 0)
    /\ notified' = <<>>
    /\ noBroadcast
    /\ UNCHANGED <<gameState, returned, nextSpawn, queueVars, rlVars, svcVars, drainVars>>

AdvanceOnce ==
    /\ \E t \in OnceInstants : t > now /\ now' = t
    /\ lastOp' = Op("advance", FALSE, 0, 0)
    /\ notified' = <<>>
    /\ noBroadcast
    /\ UNCHANGED <<gameState, returned, nextSpawn, queueVars, rlVars, svcVars, drainVars>>

AdvanceCooldowns ==
    /\ \E t \in CooldownInstants : t > now /\ now' = t
    /\ lastOp' = Op("advance", FALSE, 0, 0)
    /\ notified' = <<>>
    /\ noBroadcast
    /\ UNCHANGED <<gameState, returned, nextSpawn, queueVars, rlVars, svcVars, drainVars>>

AdvanceWindow ==
    /\ \E t \in WindowInstants : t > now /\ now' = t
    /\ lastOp' = Op("advance", FALSE, 0, 0)
    /\ notified' = <<>>
    /\ noBroadcast
    /\ UNCHANGED <<gameState, returned, nextSpawn, queueVars, rlVars, svcVars, drainVars>>

InitGSM ==
    /\ now = 0
    /\ gameState = createInitialState(0)
    /\ notified = <<>>
    /\ returned = createInitialState(0)
    /\ lastOp = Op("init", FALSE, 0, 0)
    /\ nextSpawn = 1

InitHub ==
    /\ sockets = [s \in Sockets |-> "NONE"]
    /\ socketToClient = {}
    /\ connectedClients = [s \in Sockets |-> NoClient]
    /\ published = <<>>
    /\ delivered = [s \in Sockets |-> <<>>]
    /\ pinged = {}
    /\ held = [s \in Sockets |-> <<>>]

-----------------------------------------------------------------------------
(* DonationQueue *)

getCooldownForEventType(eventType) ==
    CASE eventType = "BOOST" -> boostCooldown
      [] eventType = "SPAWN_ENEMY" -> spawnEnemyCooldown
      [] eventType = "SPAWN_DRAGON" -> spawnDragonCooldown
      [] eventType = "HEAL" -> boostCooldown
      [] OTHER -> 5

\* variant: ready only strictly after cooldownUntil
canProcessEventType_strict(eventType) ==
    IF eventType \notin DOMAIN cooldowns THEN TRUE
    ELSE now > cooldowns[eventType].cooldownUntil

canProcessEventType(eventType) ==
    IF eventType \notin DOMAIN cooldowns THEN TRUE
    ELSE now >= cooldowns[eventType].cooldownUntil

\* variant: the cooldown is left as it was
updateCooldown_skip(eventType) == cooldowns

updateCooldown(eventType) ==
    [k \in DOMAIN cooldowns \cup {eventType} |->
        IF k = eventType
        THEN [lastEventTime |-> now,
              cooldownUntil |-> now + getCooldownForEventType(eventType) * 1000]
        ELSE cooldowns[k]]

initializeCooldowns ==
    [k \in EventTypes |-> [lastEventTime |-> 0, cooldownUntil |-> 0]]

\* the outcome of an operation on the queue or of an admission: prev is the
\* time the event's kind was last admitted before the call, prevDequeued the
\* id dequeue returned the time before
Result(op, success, reason, event) ==
    [op |-> op, success |-> success, reason |-> reason,
     donationId |-> event.donationId, eventType |-> event.eventType,
     viewerId |-> event.viewerId, at |-> now,
     prev |-> IF event.eventType \in EventTypes THEN lastAdmit[event.eventType] ELSE -1,
     prevDequeued |-> dequeued]

Donation(id, viewer, eventType, params) ==
    [donationId |-> id, viewerId |-> viewer, viewerName |-> viewer,
     eventType |-> eventType, parameters |-> params]

NoParams == [boostPercent |-> 0, durationSeconds |-> 0, healAmount |-> 0, enemyType |-> ""]

\* what dequeue and peek return on an empty queue (null)
NoEvent == Donation(0, "", "", NoParams)

\* the parameters a donation of each kind may carry; 0 and "" are the falsy
\* values that the processor replaces by its defaults
ParamsOf(eventType) ==
    CASE eventType = "BOOST" ->
            {[NoParams EXCEPT !.boostPercent = 500, !.durationSeconds = 1], NoParams}
      [] eventType = "HEAL" ->
            {[NoParams EXCEPT !.healAmount = -200],
             [NoParams EXCEPT !.healAmount = 70], NoParams}
      [] eventType = "SPAWN_ENEMY" ->
            {[NoParams EXCEPT !.enemyType = "ORC"], NoParams}
      [] OTHER -> {NoParams}

\* variant: a rejected donation starts the cooldown of its kind afresh
enqueue_rejectExtends(donation, op) ==
    IF ~canProcessEventType(donation.eventType)
    THEN /\ lastResult' = Result(op, FALSE, "cooldown", donation)
         /\ cooldowns' = updateCooldown(donation.eventType)
         /\ UNCHANGED <<queue, admitted, lastAdmit>>
    ELSE /\ queue' = Append(queue, donation)
         /\ cooldowns' = updateCooldown(donation.eventType)
         /\ admitted' = [admitted EXCEPT ![donation.viewerId] = Append(@, now)]
         /\ lastAdmit' = [k \in EventTypes |->
                            IF k = donation.eventType THEN now ELSE lastAdmit[k]]
         /\ lastResult' = Result(op, TRUE, "", donation)

\* enqueue: cooldown check, push, cooldown update
enqueue(donation, op) ==
    IF ~canProcessEventType(donation.eventType)
    THEN /\ lastResult' = Result(op, FALSE, "cooldown", donation)
         /\ UNCHANGED <<queue, cooldowns, admitted, lastAdmit>>
    ELSE /\ queue' = Append(queue, donation)
         /\ cooldowns' = updateCooldown(donation.eventType)
         /\ admitted' = [admitted EXCEPT ![donation.viewerId] = Append(@, now)]
         /\ lastAdmit' = [k \in EventTypes |->
                            IF k = donation.eventType THEN now ELSE lastAdmit[k]]
         /\ lastResult' = Result(op, TRUE, "", donation)

\* DonationQueue.enqueue called directly
Enqueue ==
    \E k \in EventTypes :
        /\ nextId <= MaxQueued
        /\ enqueue(Donation(nextId, "alice", k, NoParams), "enqueue")
        /\ nextId' = nextId + 1
        /\ UNCHANGED <<totalProcessedCount, isProcessing, dequeued, pending,
                       now, gsmVars, rlVars, hubVars, svcVars, drainVars>>

\* variant: the newest event is taken (pop instead of shift)
Dequeue_pop ==
    /\ IF queue = <<>>
       THEN /\ lastResult' = Result("dequeue", FALSE, "empty", NoEvent)
            /\ UNCHANGED <<queue, totalProcessedCount, dequeued>>
       ELSE /\ lastResult' = Result("dequeue", TRUE, "", queue[Len(queue)])
            /\ queue' = SubSeq(queue, 1, Len(queue) - 1)
            /\ totalProcessedCount' = totalProcessedCount + 1
            /\ dequeued' = queue[Len(queue)].donationId
    /\ UNCHANGED <<cooldowns, isProcessing, nextId, admitted, lastAdmit, pending,
                   now, gsmVars, rlVars, hubVars, svcVars, drainVars>>

\* queue.shift() || null, counting what was taken
Dequeue ==
    /\ IF queue = <<>>
       THEN /\ lastResult' = Result("dequeue", FALSE, "empty", NoEvent)
            /\ UNCHANGED <<queue, totalProcessedCount, dequeued>>
       ELSE /\ lastResult' = Result("dequeue", TRUE, "", Head(queue))
            /\ queue' = Tail(queue)
            /\ totalProcessedCount' = totalProcessedCount + 1
            /\ dequeued' = Head(queue).donationId
    /\ UNCHANGED <<cooldowns, isProcessing, nextId, admitted, lastAdmit, pending,
                   now, gsmVars, rlVars, hubVars, svcVars, drainVars>>

\* queue[0] || null
Peek ==
    /\ lastResult' = IF queue = <<>>
                     THEN Result("peek", FALSE, "empty", NoEvent)
                     ELSE Result("peek", TRUE, "", queue[1])
    /\ UNCHANGED <<queue, cooldowns, totalProcessedCount, isProcessing, nextId,
                   admitted, lastAdmit, dequeued, pending, now, gsmVars, rlVars, hubVars, svcVars, drainVars>>

\* variant: only the head of the queue is looked at
Remove_headOnly ==
    \E id \in 1..MaxQueued :
        LET hit == queue # <<>> /\ Head(queue).donationId = id
        IN  /\ queue' = IF hit THEN Tail(queue) ELSE queue
            /\ lastResult' = Result("remove", hit, "",
                                    [NoEvent EXCEPT !.donationId = id])
            /\ UNCHANGED <<cooldowns, totalProcessedCount, isProcessing, nextId,
                           admitted, lastAdmit, dequeued, pending, now, gsmVars, rlVars, hubVars, svcVars, drainVars>>

\* filter out the donation with that id; true when something was removed
Remove ==
    \E id \in 1..MaxQueued :
        LET keep(d) == d.donationId # id
            kept == SelectSeq(queue, keep)
        IN  /\ queue' = kept
            /\ lastResult' = Result("remove", Len(kept) < Len(queue), "",
                                    [NoEvent EXCEPT !.donationId = id])
            /\ UNCHANGED <<cooldowns, totalProcessedCount, isProcessing, nextId,
                           admitted, lastAdmit, dequeued, pending, now, gsmVars, rlVars, hubVars, svcVars, drainVars>>

\* variant: clearing the queue also forgets the cooldowns
Clear_andCooldowns ==
    /\ queue' = <<>>
    /\ cooldowns' = initializeCooldowns
    /\ lastResult' = Result("clear", TRUE, "", NoEvent)
    /\ UNCHANGED <<totalProcessedCount, isProcessing, nextId,
                   admitted, lastAdmit, dequeued, pending, now, gsmVars, rlVars, hubVars, svcVars, drainVars>>

\* clear: the queue is emptied
Clear ==
    /\ queue' = <<>>
    /\ lastResult' = Result("clear", TRUE, "", NoEvent)
    /\ UNCHANGED <<cooldowns, totalProcessedCount, isProcessing, nextId,
                   admitted, lastAdmit, dequeued, pending, now, gsmVars, rlVars, hubVars, svcVars, drainVars>>

\* resetCooldowns: initializeCooldowns sets the entry of each of the four
\* kinds to zero; an entry of another kind stays
resetCooldowns ==
    [k \in DOMAIN cooldowns \cup EventTypes |->
        IF k \in EventTypes
        THEN [lastEventTime |-> 0, cooldownUntil |-> 0]
        ELSE cooldowns[k]]

ResetCooldowns ==
    /\ cooldowns' = resetCooldowns
    /\ lastResult' = Result("resetCooldowns", TRUE, "", NoEvent)
    /\ UNCHANGED <<queue, totalProcessedCount, isProcessing, nextId,
                   admitted, lastAdmit, dequeued, pending, now, gsmVars, rlVars, hubVars, svcVars, drainVars>>

\* variant: a call never finds a drain running
alreadyProcessing_never == FALSE

\* if (this.processing) return
alreadyProcessing == processing

\* the loop of processQueue up to its next await: the head of the queue is
\* dequeued and handed to the handler, or, the queue being empty, the loop
\* ends and the finally block clears the flag
drainLoop(settled, name) ==
    IF queue = <<>>
    THEN /\ processing' = FALSE
         /\ inFlight' = inFlight \ settled
         /\ drainOp' = name
         /\ UNCHANGED <<queue, totalProcessedCount, dequeued, handled>>
    ELSE /\ processing' = TRUE
         /\ queue' = Tail(queue)
         /\ totalProcessedCount' = totalProcessedCount + 1
         /\ dequeued' = Head(queue).donationId
         /\ inFlight' = (inFlight \ settled) \cup {Head(queue).donationId}
         /\ handled' = Append(handled, Head(queue).donationId)
         /\ drainOp' = name

\* a call of processQueue, up to its first await
ProcessQueue ==
    /\ IF alreadyProcessing
       THEN /\ drainOp' = "busy"
            /\ UNCHANGED <<queue, totalProcessedCount, dequeued, processing,
                           inFlight, handled>>
       ELSE drainLoop({}, "processQueue")
    /\ lastResult' = Result("processQueue", TRUE, "", NoEvent)
    /\ UNCHANGED <<cooldowns, isProcessing, nextId, admitted, lastAdmit, pending,
                   now, gsmVars, rlVars, hubVars, svcVars>>

\* the handler of an event settles, by returning or by throwing (the catch
\* only logs), and the loop goes on
HandlerSettles ==
    \E d \in inFlight, threw \in BOOLEAN :
        /\ drainLoop({d}, IF threw THEN "threw" ELSE "returned")
        /\ lastResult' = Result("processQueue", ~threw, "", NoEvent)
        /\ UNCHANGED <<cooldowns, isProcessing, nextId, admitted, lastAdmit,
                       pending, now, gsmVars, rlVars, hubVars, svcVars>>

InitDrain ==
    /\ processing = FALSE
    /\ inFlight = {}
    /\ handled = <<>>
    /\ drainOp = "init"

InitQueue ==
    /\ queue = <<>>
    /\ cooldowns = initializeCooldowns
    /\ totalProcessedCount = 0
    /\ isProcessing = FALSE
    /\ nextId = 1
    /\ lastResult = [op |-> "init", success |-> FALSE, reason |-> "",
                     donationId |-> 0, eventType |-> "", viewerId |-> "",
                     at |-> 0, prev |-> -1, prevDequeued |-> 0]
    /\ admitted = [v \in Viewers |-> <<>>]
    /\ lastAdmit = [k \in EventTypes |-> -1]
    /\ dequeued = 0
    /\ pending = {}

-----------------------------------------------------------------------------
(* StreamForgeEventProcessor *)

\* canProcessEvent: "The queue will handle cooldowns internally"
canProcessEvent(event) == TRUE

\* processEvent: the admission path of an arriving donation
processEvent(event) ==
    /\ IF ~canProcessEvent(event)
       THEN /\ lastResult' = Result("processEvent", FALSE, "cooldown or rate limited", event)
            /\ UNCHANGED <<queue, cooldowns, admitted, lastAdmit>>
       ELSE enqueue(event, "processEvent")
    /\ nextId' = nextId + 1
    /\ UNCHANGED <<totalProcessedCount, isProcessing, dequeued, pending,
                   now, gsmVars, rlVars, hubVars, svcVars, drainVars>>

\* a donation of any kind from any viewer arrives
ProcessEvent ==
    \E k \in EventTypes, v \in Viewers :
        /\ nextId <= MaxDonations
        /\ processEvent(Donation(nextId, v, k, NoParams))

\* a donation of any kind with any parameters arrives
ProcessEventWithParameters ==
    \E k \in EventTypes \cup {UnknownType} : \E params \in ParamsOf(k) :
        /\ nextId <= MaxPipeline
        /\ processEvent(Donation(nextId, "alice", k, params))

\* x || dflt
JsOr(x, dflt) == IF x = 0 THEN dflt ELSE x

applyBoostEvent(event, op) ==
    /\ applyBoost(JsOr(event.parameters.durationSeconds, 600),
                  JsOr(event.parameters.boostPercent, 50), op)
    /\ UNCHANGED nextSpawn

applyHealEvent(event, op) ==
    /\ updateKnightHealth(
          Min(100, gameState.knightHealth + JsOr(event.parameters.healAmount, 25)),
          [op EXCEPT !.death =
              gameState.knightHealth + JsOr(event.parameters.healAmount, 25) <= 0])
    /\ UNCHANGED nextSpawn

applySpawnEnemyEvent(event, op) ==
    addEnemySpawn(IF event.parameters.enemyType = "" THEN "GOBLIN"
                  ELSE event.parameters.enemyType,
                  IF event.viewerName = "" THEN "Anonymous" ELSE event.viewerName,
                  event.donationId, op)

applySpawnDragonEvent(event, op) ==
    addEnemySpawn("DRAGON",
                  IF event.viewerName = "" THEN "Anonymous" ELSE event.viewerName,
                  event.donationId, op)

applyEventToGameState(event, op) ==
    CASE event.eventType = "BOOST" -> applyBoostEvent(event, op)
      [] event.eventType = "HEAL" -> applyHealEvent(event, op)
      [] event.eventType = "SPAWN_ENEMY" -> applySpawnEnemyEvent(event, op)
      [] event.eventType = "SPAWN_DRAGON" -> applySpawnDragonEvent(event, op)
      [] OTHER -> /\ returned' = gameState
                  /\ notified' = <<>>
                  /\ lastOp' = op
                  /\ noBroadcast
                  /\ UNCHANGED <<gameState, nextSpawn>>

\* the kinds whose dispatch calls overlaySync.sendChallengeAlert before
\* it touches the session; the call returns or throws
callsOverlay(event) == event.eventType \in {"SPAWN_ENEMY", "SPAWN_DRAGON"}

\* variant: a tick looks at the queue only
tickSkips_emptyOnly == queue = <<>>

\* if (this.isProcessing || this.donationQueue.isEmpty()) return
tickSkips == isProcessing \/ queue = <<>>

\* variant: the guard is cleared at the end of the try block
finallyIsProcessing_onSuccessOnly(p) == p.threw

\* finally { this.isProcessing = false }
finallyIsProcessing(p) == FALSE

\* one tick of the 1 s interval, up to its await: take one event and apply
\* it. lastOp.a is the id of the event taken (0: none), lastOp.b what became
\* of it (0: nothing taken, 1: applied, 2: the dispatch threw)
ProcessNextEvent ==
    \E threw \in BOOLEAN :
        /\ IF tickSkips
           THEN /\ ~threw
                /\ lastOp' = Op("processNextEvent", FALSE, 0, 0)
                /\ notified' = <<>>
                /\ noBroadcast
                /\ UNCHANGED <<gameState, returned, nextSpawn, queue,
                               totalProcessedCount, dequeued, isProcessing,
                               pending>>
           ELSE /\ threw => callsOverlay(Head(queue))
                /\ isProcessing' = TRUE
                /\ queue' = Tail(queue)
                /\ totalProcessedCount' = totalProcessedCount + 1
                /\ dequeued' = Head(queue).donationId
                /\ pending' = pending \cup
                      {[donationId |-> Head(queue).donationId, threw |-> threw]}
                /\ IF threw
                   THEN /\ lastOp' = Op("processNextEvent", FALSE,
                                        Head(queue).donationId, 2)
                        /\ notified' = <<>>
                        /\ noBroadcast
                        /\ UNCHANGED <<gameState, returned, nextSpawn>>
                   ELSE applyEventToGameState(Head(queue),
                            Op("processNextEvent", FALSE,
                               Head(queue).donationId, 1))
        /\ UNCHANGED <<cooldowns, nextId, lastResult, admitted, lastAdmit,
                       now, rlVars, svcVars, drainVars>>

\* the rest of the tick, after the await: the outcome is logged and the
\* guard cleared
ProcessNextEventFinally ==
    \E p \in pending :
        /\ pending' = pending \ {p}
        /\ isProcessing' = finallyIsProcessing(p)
        /\ UNCHANGED <<queue, cooldowns, totalProcessedCount, nextId,
                       lastResult, admitted, lastAdmit, dequeued,
                       now, gsmVars, rlVars, hubVars, svcVars, drainVars>>

-----------------------------------------------------------------------------
(* RateLimiter *)

Entry(count, windowStart, lastRequest) ==
    [count |-> count, windowStart |-> windowStart, lastRequest |-> lastRequest]

\* updateGlobalCounter: start a new window when the current one has expired
updateGlobalCounter(gs) ==
    IF now - gs.windowStart >= donationRateWindow
    THEN Entry(0, now, now)
    ELSE gs

\* variant: a stored entry is kept however old its window is
getUserState_noExpiry(userId) ==
    IF userId \notin DOMAIN userStates THEN Entry(0, now, now)
    ELSE userStates[userId]

\* getUserState: the stored entry, or a fresh one when absent or expired
getUserState(userId) ==
    IF userId \notin DOMAIN userStates THEN Entry(0, now, now)
    ELSE IF now - userStates[userId].windowStart >= donationRateWindow
         THEN Entry(0, now, now)
         ELSE userStates[userId]

isWithinGlobalLimit == updateGlobalCounter(globalState).count < donationRateLimit

\* variant: a viewer at the limit is still within it
isWithinUserLimit_lax(userId) ==
    getUserState(userId).count <= donationPerUserLimit

isWithinUserLimit(userId) == getUserState(userId).count < donationPerUserLimit

updateUserCounter(userId) ==
    [u \in DOMAIN userStates \cup {userId} |->
        IF u = userId
        THEN [getUserState(userId) EXCEPT !.lastRequest = now, !.count = @ + 1]
        ELSE userStates[u]]

\* recordDonation calls since the global window in force began
recordedNow ==
    IF now - globalState.windowStart >= donationRateWindow THEN 0 ELSE recorded

CheckLimit ==
    \E u \in Viewers :
        /\ globalState' = updateGlobalCounter(globalState)
        /\ recorded' = recordedNow
        /\ lastCheck' =
              IF ~isWithinGlobalLimit
              THEN [allowed |-> FALSE, type |-> "global", userId |-> u]
              ELSE IF ~isWithinUserLimit(u)
                   THEN [allowed |-> FALSE, type |-> "user", userId |-> u]
                   ELSE [allowed |-> TRUE, type |-> "", userId |-> u]
        /\ UNCHANGED <<userStates, passTimes, now, gsmVars, queueVars, hubVars, svcVars, drainVars>>

RecordDonation ==
    \E u \in Viewers :
        /\ recordedNow < MaxRecorded
        /\ globalState' = updateGlobalCounter(globalState)
        /\ userStates' = updateUserCounter(u)
        /\ recorded' = recordedNow + 1
        /\ lastCheck' = [allowed |-> FALSE, type |-> "recordDonation", userId |-> u]
        /\ UNCHANGED <<passTimes, now, gsmVars, queueVars, hubVars, svcVars, drainVars>>

\* the admission of one donation: checkLimit and, when it allows the
\* donation, recordDonation right after it
Donate ==
    \E u \in Viewers :
        /\ Len(passTimes[u]) < MaxPasses
        /\ globalState' = updateGlobalCounter(globalState)
        /\ IF isWithinGlobalLimit /\ isWithinUserLimit(u)
           THEN /\ userStates' = updateUserCounter(u)
                /\ recorded' = recordedNow + 1
                /\ passTimes' = [passTimes EXCEPT ![u] = Append(@, now)]
                /\ lastCheck' = [allowed |-> TRUE, type |-> "donate", userId |-> u]
           ELSE /\ recorded' = recordedNow
                /\ lastCheck' = [allowed |-> FALSE, type |-> "donate", userId |-> u]
                /\ UNCHANGED <<userStates, passTimes>>
        /\ UNCHANGED <<now, gsmVars, queueVars, hubVars, svcVars, drainVars>>

\* the clock moves on to a window boundary or far beyond one
AdvanceBurst ==
    /\ \E t \in BurstInstants : t > now /\ now' = t
    /\ lastOp' = Op("advance", FALSE, 0, 0)
    /\ notified' = <<>>
    /\ noBroadcast
    /\ UNCHANGED <<gameState, returned, nextSpawn, queueVars, rlVars, svcVars, drainVars>>

\* variant: entries idle for more than half a window are dropped
cleanupOldStates_eager ==
    LET keep == {u \in DOMAIN userStates :
                    ~(now - userStates[u].lastRequest > donationRateWindow \div 2)}
    IN  [u \in keep |-> userStates[u]]

\* cleanupOldStates: the entries idle for more than two windows are dropped
cleanupOldStates ==
    LET keep == {u \in DOMAIN userStates :
                    ~(now - userStates[u].lastRequest > donationRateWindow * 2)}
    IN  [u \in keep |-> userStates[u]]

\* the body of the 60 s cleanup interval
CleanupOldStates ==
    /\ userStates' = cleanupOldStates
    /\ lastCheck' = [allowed |-> FALSE,
                     type |-> IF DOMAIN cleanupOldStates = DOMAIN userStates
                              THEN "cleanup" ELSE "cleanup-removed",
                     userId |-> ""]
    /\ UNCHANGED <<globalState, recorded, passTimes, now, gsmVars, queueVars, hubVars, svcVars, drainVars>>

\* the clock moves on by a window or more
AdvanceLong ==
    /\ \E t \in LongInstants : t > now /\ now' = t
    /\ lastOp' = Op("advance", FALSE, 0, 0)
    /\ notified' = <<>>
    /\ noBroadcast
    /\ UNCHANGED <<gameState, returned, nextSpawn, queueVars, rlVars, svcVars, drainVars>>

InitRL ==
    /\ globalState = Entry(0, 0, 0)
    /\ userStates = <<>>
    /\ recorded = 0
    /\ passTimes = [u \in Viewers |-> <<>>]
    /\ lastCheck = [allowed |-> FALSE, type |-> "init", userId |-> ""]

-----------------------------------------------------------------------------
(* GameWebSocketServer: connections, messages, the health check *)

\* the client types a client_info message may carry: the game client's, the
\* overlay's, and the one broadcastGameState excludes
ClientTypes == {"godot-game", "overlay", "game"}

\* the sockets whose transport carries messages to the server
Live == {s \in Sockets : sockets[s] \in {"OPEN", "BROKEN"}}

\* a handler that writes to single sockets only: what it wrote
sendMessages(to, types) ==
    /\ published' = <<>>
    /\ delivered' = [s \in Sockets |->
                        IF s = to /\ sockets'[s] = "OPEN" THEN types ELSE <<>>]
    /\ held' = [s \in Sockets |->
                   IF s = to /\ sockets'[s] = "OPEN" /\ Has(types, "game_state_update")
                   THEN <<gameState>> ELSE held[s]]
    /\ pinged' = {}

\* variant: the new connection is sent the welcome message only
HandleConnection_welcomeOnly ==
    \E s \in Sockets :
        /\ sockets[s] = "NONE"
        /\ \A r \in 1..(s - 1) : sockets[r] # "NONE"
        /\ sockets' = [sockets EXCEPT ![s] = "OPEN"]
        /\ connectedClients' = [connectedClients EXCEPT
                                  ![s] = ConnectionState("unknown")]
        /\ socketToClient' = socketToClient \cup {s}
        /\ sendMessages(s, <<"connection_established">>)
        /\ lastOp' = Op("handleConnection", FALSE, 0, 0)
        /\ notified' = <<>>
        /\ UNCHANGED <<gameState, returned, nextSpawn, now, queueVars, rlVars, svcVars, drainVars>>

\* a new connection: the socket joins server.clients, the client is
\* registered as unknown and is sent the state and the welcome message
HandleConnection ==
    \E s \in Sockets :
        /\ sockets[s] = "NONE"
        /\ \A r \in 1..(s - 1) : sockets[r] # "NONE"
        /\ sockets' = [sockets EXCEPT ![s] = "OPEN"]
        /\ connectedClients' = [connectedClients EXCEPT
                                  ![s] = ConnectionState("unknown")]
        /\ socketToClient' = socketToClient \cup {s}
        /\ sendMessages(s, <<"game_state_update", "connection_established">>)
        /\ lastOp' = Op("handleConnection", FALSE, 0, 0)
        /\ notified' = <<>>
        /\ UNCHANGED <<gameState, returned, nextSpawn, now, queueVars, rlVars, svcVars, drainVars>>

\* client_info: the client names its type, once, after it has connected
HandleClientInfo ==
    \E s \in Live, t \in ClientTypes :
        /\ connectedClients[s].clientType \in {"", "unknown"}
        /\ connectedClients' =
              IF connectedClients[s].present
              THEN [touch(connectedClients, s) EXCEPT ![s].clientType = t]
              ELSE connectedClients
        /\ sendMessages(0, <<>>)
        /\ lastOp' = [Op("handleClientInfo", FALSE, 0, 0) EXCEPT !.sender = s]
        /\ notified' = <<>>
        /\ UNCHANGED <<sockets, socketToClient, gameState, returned, nextSpawn,
                       now, queueVars, rlVars, svcVars, drainVars>>

\* stats_update: the game client reports its score
HandleStatsUpdate ==
    \E s \in Live, sc \in {10} :
        /\ updateFromGame({}, {sc}, {}, {},
              [Op("updateFromGame", FALSE, 0, 0) EXCEPT !.sender = s])
        /\ UNCHANGED <<nextSpawn, now, queueVars, rlVars, svcVars, drainVars>>

\* donation_received: the donation is broadcast to every client
HandleDonationReceived ==
    \E s \in Live :
        /\ broadcast(<<DonationEventMessage(1)>>, s)
        /\ lastOp' = Op("handleDonationReceived", FALSE, 0, 0)
        /\ notified' = <<>>
        /\ UNCHANGED <<gameState, returned, nextSpawn, now, queueVars, rlVars, svcVars, drainVars>>

\* a message that is not JSON: JSON.parse throws before the client's
\* lastPing is touched, and the catch answers with an error message
HandleInvalidMessage ==
    \E s \in Live :
        /\ UNCHANGED <<sockets, socketToClient, connectedClients>>
        /\ sendMessages(s, <<"error">>)
        /\ lastOp' = [Op("handleMessage", FALSE, 0, 0) EXCEPT !.sender = s]
        /\ notified' = <<>>
        /\ UNCHANGED <<gameState, returned, nextSpawn, now, queueVars, rlVars,
                       svcVars, drainVars>>

\* a pong arrives
HandlePong ==
    \E s \in Live :
        /\ connectedClients' =
              IF connectedClients[s].present
              THEN [connectedClients EXCEPT ![s].isAlive = TRUE,
                                            ![s].lastPing = now]
              ELSE connectedClients
        /\ sendMessages(0, <<>>)
        /\ lastOp' = [Op("handlePong", FALSE, 0, 0) EXCEPT !.sender = s]
        /\ notified' = <<>>
        /\ UNCHANGED <<sockets, socketToClient, gameState, returned, nextSpawn,
                       now, queueVars, rlVars, svcVars, drainVars>>

\* the transport of a socket fails: its writes throw from now on, or it
\* starts closing; the close event has not been delivered yet
TransportFails ==
    \E s \in Sockets, t \in {"BROKEN", "CLOSING"} :
        /\ sockets[s] = "OPEN"
        /\ sockets' = [sockets EXCEPT ![s] = t]
        /\ sendMessages(0, <<>>)
        /\ lastOp' = Op("transport", FALSE, 0, 0)
        /\ notified' = <<>>
        /\ UNCHANGED <<socketToClient, connectedClients, gameState, returned,
                       nextSpawn, now, queueVars, rlVars, svcVars, drainVars>>

\* the close event: the socket leaves server.clients and both maps
HandleDisconnection ==
    \E s \in Sockets :
        /\ sockets[s] # "NONE"
        /\ sockets' = [sockets EXCEPT ![s] = "NONE"]
        /\ connectedClients' = [connectedClients EXCEPT ![s] = NoClient]
        /\ socketToClient' = socketToClient \ {s}
        /\ published' = <<>>
        /\ delivered' = [r \in Sockets |-> <<>>]
        /\ held' = [held EXCEPT ![s] = <<>>]
        /\ pinged' = {}
        /\ lastOp' = Op("handleDisconnection", FALSE, 0, 0)
        /\ notified' = <<>>
        /\ UNCHANGED <<gameState, returned, nextSpawn, now, queueVars, rlVars, svcVars, drainVars>>

\* variant: a client is timed out after half a ping interval
timedOut_hasty(client) == now - client.lastPing > pingInterval \div 2

\* now - client.lastPing > timeout
timedOut(client) == now - client.lastPing > connectionTimeout

\* the periodic health check: drop the clients that timed out from
\* connectedClients, then ping every open socket of server.clients
PerformHealthCheck ==
    /\ connectedClients' =
          [s \in Sockets |->
              IF connectedClients[s].present /\ timedOut(connectedClients[s])
              THEN NoClient ELSE connectedClients[s]]
    /\ pinged' = Live
    /\ published' = <<>>
    /\ delivered' = [s \in Sockets |-> <<>>]
    /\ lastOp' = Op("performHealthCheck", FALSE, 0, 0)
    /\ notified' = <<>>
    /\ UNCHANGED <<sockets, socketToClient, held, gameState, returned, nextSpawn,
                   now, queueVars, rlVars, svcVars, drainVars>>

AdvanceSweep ==
    /\ \E t \in SweepInstants : t > now /\ now' = t
    /\ lastOp' = Op("advance", FALSE, 0, 0)
    /\ notified' = <<>>
    /\ noBroadcast
    /\ UNCHANGED <<gameState, returned, nextSpawn, queueVars, rlVars, svcVars, drainVars>>

\* the health check interval fires
SweepDue == now > 0 /\ now % pingInterval = 0

\* the health check, when its interval fires
SweepOnTime == SweepDue /\ PerformHealthCheck

\* the clock moves on, no further than the next firing of the health check
\* interval, and past a firing only once the health check has run
AdvancePing ==
    /\ SweepDue => lastOp.name = "performHealthCheck"
    /\ \E t \in PingInstants :
          /\ t > now
          /\ t <= (now \div pingInterval + 1) * pingInterval
          /\ now' = t
    /\ lastOp' = Op("advance", FALSE, 0, 0)
    /\ notified' = <<>>
    /\ noBroadcast
    /\ UNCHANGED <<gameState, returned, nextSpawn, queueVars, rlVars, svcVars, drainVars>>

-----------------------------------------------------------------------------
(* GameStateSyncService *)

\* getCurrentGameState: what the service reads off the manager's state. The
\* state has no kills, knight or boost object, so the kills and the health
\* it reads are 0 and the boost inactive
getCurrentGameState(gs) ==
    [score |-> gs.score, kills |-> 0, health |-> 0, boostActive |-> FALSE,
     status |-> gs.status, wave |-> gs.wave]

\* hasStateChanged: nothing sent yet, or one of the compared fields differs
hasStateChanged(newState) ==
    \/ lastSentState = <<>>
    \/ lastSentState[1] # newState

\* the clients broadcastToAllClients writes to, and those it drops
syncOpen == {c \in overlayClients : sockets[c] = "OPEN"}

InitSvc ==
    /\ overlayClients = {}
    /\ lastSentState = <<>>
    /\ syncOp = "none"
    /\ syncSent = {}

\* registerOverlayClient: the client is added and sent the current state at
\* once; threw: the read of the manager's state threw
RegisterOverlayClient ==
    \E c \in Sockets, threw \in BOOLEAN :
        /\ sockets[c] # "NONE"
        /\ c \notin overlayClients
        /\ syncOp' = "register"
        /\ overlayClients' =
              IF ~threw /\ sockets[c] = "BROKEN"
              THEN overlayClients
              ELSE overlayClients \cup {c}
        /\ syncSent' = IF ~threw /\ sockets[c] = "OPEN" THEN {c} ELSE {}
        /\ UNCHANGED <<lastSentState, now, gsmVars, queueVars, rlVars, hubVars, drainVars>>

UnregisterOverlayClient ==
    \E c \in overlayClients :
        /\ syncOp' = "unregister"
        /\ overlayClients' = overlayClients \ {c}
        /\ syncSent' = {}
        /\ UNCHANGED <<lastSentState, now, gsmVars, queueVars, rlVars, hubVars, drainVars>>

\* broadcastGameState, the body of the 1 s interval: nothing without
\* clients; else the state is read and, when it differs from the last one
\* sent, written to every open client, the others being dropped
SyncTick ==
    \E threw \in BOOLEAN :
        /\ threw => overlayClients # {}
        /\ syncOp' = "tick"
        /\ IF overlayClients = {} \/ threw
              \/ ~hasStateChanged(getCurrentGameState(gameState))
           THEN /\ syncSent' = {}
                /\ UNCHANGED <<overlayClients, lastSentState>>
           ELSE /\ syncSent' = syncOpen
                /\ overlayClients' = syncOpen
                /\ lastSentState' = <<getCurrentGameState(gameState)>>
        /\ UNCHANGED <<now, gsmVars, queueVars, rlVars, hubVars, drainVars>>

-----------------------------------------------------------------------------
(* Specifications *)

Init == InitGSM /\ InitQueue /\ InitRL /\ InitHub /\ InitSvc /\ InitDrain

\* the session state machine on its own
NextGSM ==
    \/ StartGame \/ PauseGame \/ ResumeGame \/ StopGame \/ ResetGame
    \/ UpdateKnightHealth \/ UpdateKnightAttack \/ UpdateScore \/ AddScore
    \/ NextWave \/ ApplyBoost \/ RemoveBoost \/ CheckBoostExpiry
    \/ AddEnemySpawn \/ RemoveEnemySpawn \/ UpdateFromGame \/ AdvanceShort

SpecGSM == Init /\ [][NextGSM]_vars

\* every mutating operation of the session, the donation list included
NextNotify ==
    \/ StartGame \/ PauseGame \/ ResumeGame \/ StopGame \/ ResetGame
    \/ UpdateKnightHealth \/ UpdateKnightAttack \/ UpdateScore \/ AddScore
    \/ NextWave \/ ApplyBoost \/ RemoveBoost
    \/ AddEnemySpawn \/ RemoveEnemySpawn \/ UpdateFromGame
    \/ AddActiveDonation \/ RemoveDonation \/ AdvanceOnce

SpecNotify == Init /\ [][NextNotify]_vars

\* the queue on its own
NextQueue == Enqueue \/ Dequeue \/ Peek \/ Remove \/ AdvanceShort

SpecQueue == Init /\ [][NextQueue]_vars

\* everything that touches the queue, the admin's operations included
NextCooldown ==
    \/ Enqueue \/ Dequeue \/ Remove \/ Clear \/ ResetCooldowns
    \/ AdvanceOnce

SpecCooldown == Init /\ [][NextCooldown]_vars

\* the queue drained by processQueue while donations keep arriving
NextDrain == Enqueue \/ ProcessQueue \/ HandlerSettles

SpecDrain == Init /\ [][NextDrain]_vars

\* admission of arriving donations
NextAdmit == ProcessEvent \/ AdvanceCooldowns

SpecAdmit == Init /\ [][NextAdmit]_vars

\* the rate limiter on its own
NextRL == CheckLimit \/ RecordDonation \/ AdvanceWindow

SpecRL == Init /\ [][NextRL]_vars

\* the rate limiter with its cleanup interval, over several windows
NextCleanup == CheckLimit \/ RecordDonation \/ CleanupOldStates \/ AdvanceLong

SpecCleanup == Init /\ [][NextCleanup]_vars

\* donations admitted one after the other across window boundaries, with the
\* cleanup interval running
NextBurst == Donate \/ CleanupOldStates \/ AdvanceBurst

SpecBurst == Init /\ [][NextBurst]_vars

\* the broadcast hub: connections, client messages, the health check
NextHub ==
    \/ HandleConnection \/ HandleClientInfo \/ HandleStatsUpdate
    \/ HandleDonationReceived \/ HandlePong \/ TransportFails
    \/ HandleDisconnection \/ PerformHealthCheck \/ AdvanceSweep

SpecHub == Init /\ [][NextHub]_vars

\* the hub under its 30 s health check, with clients that answer or not
NextSweep ==
    \/ HandleConnection \/ HandleClientInfo \/ HandleInvalidMessage
    \/ HandlePong \/ SweepOnTime \/ AdvancePing

SpecSweep == Init /\ [][NextSweep]_vars

\* the sync service with clients coming and going and the state changing
NextSync ==
    \/ RegisterOverlayClient \/ UnregisterOverlayClient \/ SyncTick
    \/ HandleConnection \/ TransportFails \/ HandleDisconnection
    \/ UpdateScore \/ PauseGame

SpecSync == Init /\ [][NextSync]_vars

\* the donation pipeline: admission, the processing tick, the game client
Next ==
    \/ ProcessEventWithParameters \/ ProcessNextEvent
    \/ ProcessNextEventFinally
    \/ HandleGameStateUpdate \/ AdvanceShort

Spec == Init /\ [][Next]_vars

\* the pipeline under its timer: setInterval fires processNextEvent every
\* second for as long as the processor runs, and the awaited application of
\* the tick settles, so both halves of the tick are taken whenever they
\* stay possible
NextLive ==
    \/ ProcessEventWithParameters \/ ProcessNextEvent
    \/ ProcessNextEventFinally

SpecLive ==
    /\ Init /\ [][NextLive]_vars
    /\ WF_vars(ProcessNextEvent)
    /\ WF_vars(ProcessNextEventFinally)

-----------------------------------------------------------------------------
(* Properties *)

\* the integer nearest to 20 * (1 + p / 100), halves upwards
RoundedAttack(p) ==
    CHOOSE n \in -200..400 :
        /\ 100 * n - 50 <= 2000 + 20 * p
        /\ 2000 + 20 * p < 100 * n + 50

\* C1: applyBoost(d, p) at time now extends an active, unexpired boost from
\* its previous expiry (previous boostExpiry + d*1000, not now + d*1000);
\* with no boost or an expired one the expiry is now + d*1000; in both cases
\* boostActive becomes true and knightAttack is round(20*(1+p/100)) of this
\* request alone.
C1_BoostStacking ==
    lastOp.name = "applyBoost" =>
        /\ gameState.boostActive
        /\ gameState.knightAttack = RoundedAttack(lastOp.b)
        /\ gameState.boostExpiry =
              IF lastOp.prevActive /\ lastOp.prevExpiry > now
              THEN lastOp.prevExpiry + lastOp.a * 1000
              ELSE now + lastOp.a * 1000

\* a boost was applied on top of an unexpired one: the expiry lies beyond
\* now + d*1000
C1_Witness ==
    /\ lastOp.name = "applyBoost"
    /\ gameState.boostExpiry > now + lastOp.a * 1000
    /\ now > 0

StripTime(gs) == [gs EXCEPT !.lastUpdated = 0]

\* C2: whenever an operation is given a health that drives knightHealth to 0
\* (updateKnightHealth with a value <= 0, updateFromGame reporting health
\* <= 0), the snapshot it returns has score 0, wave 1, no boost, no pending
\* spawns, health 100 and equals, timestamps apart, the one resetGame gives.
C2_DeathReset ==
    lastOp.death =>
        /\ returned.score = 0
        /\ returned.wave = 1
        /\ returned.boostActive = FALSE
        /\ returned.pendingEnemySpawns = <<>>
        /\ returned.knightHealth = 100
        /\ StripTime(returned) = StripTime(createInitialState(0))
        /\ gameState = returned

\* the game client reported a health <= 0 after the session had been started
C2_Witness ==
    /\ lastOp.death
    /\ lastOp.name = "updateFromGame"
    /\ now > 0

Healths(states) == {states[i].knightHealth : i \in 1..Len(states)}

\* C3: no stored state, no returned snapshot and no state handed to the
\* listener has knightHealth 0; an operation that drives the health to 0
\* notifies the listener once, with the state already reset.
C3_DeathIsAtomic ==
    /\ gameState.knightHealth # 0
    /\ returned.knightHealth # 0
    /\ 0 \notin Healths(notified)
    /\ lastOp.death =>
          /\ Len(notified) = 1
          /\ StripTime(notified[1]) = StripTime(createInitialState(0))

\* updateKnightHealth was given a value <= 0 and the listener was notified
C3_Witness ==
    /\ lastOp.death
    /\ lastOp.name = "updateKnightHealth"
    /\ Len(notified) = 1

InBounds(gs) ==
    /\ gs.knightHealth >= 0 /\ gs.knightHealth <= 100
    /\ gs.knightAttack >= 0 /\ gs.knightAttack <= 100

\* C4: while admitted donations are processed and the game client sends
\* updates, knightHealth and knightAttack stay within 0..100 in the stored
\* state, in every returned snapshot and in every listener notification.
C4_Bounds ==
    /\ InBounds(gameState)
    /\ InBounds(returned)
    /\ \A i \in 1..Len(notified) : InBounds(notified[i])

\* the cooldown of each kind in ms, as configured
CooldownMs(eventType) ==
    CASE eventType = "BOOST" -> boostCooldown * 1000
      [] eventType = "HEAL" -> boostCooldown * 1000
      [] eventType = "SPAWN_ENEMY" -> spawnEnemyCooldown * 1000
      [] eventType = "SPAWN_DRAGON" -> spawnDragonCooldown * 1000

\* C5: after a donation of kind k was admitted at time t, an admission
\* attempt of kind k is rejected, with the cooldown reason, when it comes
\* before t + cooldown(k), and admitted when it comes at or after it; a kind
\* never admitted before is admitted.
C5_Cooldown ==
    lastResult.op = "processEvent" =>
        /\ lastResult.prev < 0 => lastResult.success
        /\ lastResult.prev >= 0 =>
              (lastResult.success <=>
                  lastResult.at >= lastResult.prev + CooldownMs(lastResult.eventType))
        /\ ~lastResult.success => lastResult.reason = "cooldown"

\* a dragon donation admitted after an earlier dragon donation's cooldown
C5_Witness ==
    /\ lastResult.op = "processEvent"
    /\ lastResult.success
    /\ lastResult.eventType = "SPAWN_DRAGON"
    /\ lastResult.prev >= 0

\* C6: no viewer has more than donationPerUserLimit donations admitted inside
\* one rate window: the next one inside the window is rejected.
C6_PerActorLimit ==
    \A v \in Viewers : \A i \in 1..Len(admitted[v]) :
        i + donationPerUserLimit <= Len(admitted[v]) =>
            admitted[v][i + donationPerUserLimit] - admitted[v][i] >= donationRateWindow

\* C7: every recordDonation adds one to the global counter, so that the
\* counter equals the number of admissions recorded in the window in force.
C7_GlobalCounter ==
    globalState.count = recorded

\* C8: the cooldown check, the queue append and the cooldown update of one
\* admission are one step: after an admission the event is the last of the
\* queue and its kind's cooldown runs from that instant, and two donations
\* of a kind with a non-zero cooldown are never both admitted less than the
\* cooldown apart.
C8_AtomicAdmission ==
    (lastResult.op = "processEvent" /\ lastResult.success) =>
        /\ queue # <<>>
        /\ queue[Len(queue)].donationId = lastResult.donationId
        /\ cooldowns[lastResult.eventType].cooldownUntil =
              lastResult.at + CooldownMs(lastResult.eventType)
        /\ (lastResult.prev >= 0 /\ CooldownMs(lastResult.eventType) > 0) =>
              lastResult.at - lastResult.prev >= CooldownMs(lastResult.eventType)

\* two donations of one kind arrived at the same instant: the second one,
\* arriving when the first had just been admitted, was rejected
C8_Witness ==
    /\ lastResult.op = "processEvent"
    /\ ~lastResult.success
    /\ lastResult.at = lastResult.prev

\* C9: an admission is recorded with the rate limiter: after a successful
\* processEvent the viewer's rate-limit entry counts it.
C9_GateRecords ==
    (lastResult.op = "processEvent" /\ lastResult.success) =>
        /\ lastResult.viewerId \in DOMAIN userStates
        /\ userStates[lastResult.viewerId].count >= 1

Ids(q) == {q[i].donationId : i \in 1..Len(q)}

\* C10: the queue is FIFO. enqueue appends; dequeue returns the head, which
\* is the event admitted earliest of those queued, and leaves the rest in
\* order; peek returns the head and leaves the queue as it is; dequeue on an
\* empty queue returns nothing and changes nothing.
C10_Fifo ==
    [][lastResult' # lastResult =>
        /\ (lastResult'.op = "enqueue" /\ lastResult'.success) =>
              /\ Len(queue') = Len(queue) + 1
              /\ SubSeq(queue', 1, Len(queue)) = queue
              /\ queue'[Len(queue')].donationId = lastResult'.donationId
        /\ (lastResult'.op = "dequeue" /\ queue # <<>>) =>
              /\ lastResult'.success
              /\ lastResult'.donationId = queue[1].donationId
              /\ \A id \in Ids(queue) : lastResult'.donationId <= id
              /\ queue' = Tail(queue)
        /\ (lastResult'.op = "dequeue" /\ queue = <<>>) =>
              /\ ~lastResult'.success
              /\ UNCHANGED <<queue, cooldowns, totalProcessedCount>>
        /\ lastResult'.op = "peek" =>
              /\ UNCHANGED <<queue, cooldowns, totalProcessedCount>>
              /\ lastResult'.success = (queue # <<>>)
              /\ queue # <<>> => lastResult'.donationId = queue[1].donationId]_vars

\* a second event left the queue through dequeue while a later one waited
C10_Witness ==
    /\ lastResult.op = "dequeue"
    /\ lastResult.success
    /\ lastResult.prevDequeued > 0
    /\ queue # <<>>

\* a step that is a tick of the event processor
TickStep == lastOp' # lastOp /\ lastOp'.name = "processNextEvent"

\* a tick that leaves the queue and the session alone and broadcasts nothing
TickIsNoOp ==
    /\ UNCHANGED <<queue, gameState, totalProcessedCount, pending, isProcessing>>
    /\ notified' = <<>>
    /\ published' = <<>>

\* C11: ticks never overlap. At most one event application is in flight at
\* any time; a tick that fires while an application is in flight dequeues
\* nothing; a tick on an empty queue changes neither the queue nor the
\* session and broadcasts nothing; every tick dequeues at most one event.
C11_TicksNeverOverlap ==
    /\ [](Cardinality(pending) <= 1)
    /\ [][TickStep =>
            /\ pending # {} => TickIsNoOp
            /\ queue = <<>> => TickIsNoOp
            /\ Len(queue') >= Len(queue) - 1
            /\ totalProcessedCount' <= totalProcessedCount + 1]_vars

\* a tick fired while the application of an earlier event was in flight and
\* another event was waiting
C11_Witness ==
    /\ lastOp.name = "processNextEvent"
    /\ lastOp.b = 0
    /\ pending # {}
    /\ queue # <<>>

C13_TickBroadcastsBoth ==
    (lastOp.name = "processNextEvent" /\ lastOp.b = 1) =>
        /\ \E i \in 1..Len(published) :
              /\ published[i].type = "donation_event"
              /\ published[i].donationId = lastOp.a
        /\ \E i \in 1..Len(published) :
              published[i].type = "game_state_broadcast"
        /\ notified = <<gameState>>

MutatingOps ==
    {"startGame", "pauseGame", "resumeGame", "stopGame", "resetGame",
     "updateKnightHealth", "updateKnightAttack", "updateScore", "addScore",
     "nextWave", "applyBoost", "removeBoost", "addEnemySpawn",
     "removeEnemySpawn", "addActiveDonation", "removeDonation",
     "updateFromGame"}

\* C14: every mutating operation of the session stamps lastUpdated with the
\* time of the call and hands the new state to the subscribed listener (the
\* server's broadcastGameState) before it returns: the stored state, the
\* state the listener got and the snapshot returned are the same, and the
\* snapshot was handed to the hub.
C14_MutationNotifies ==
    lastOp.name \in MutatingOps =>
        /\ gameState.lastUpdated = now
        /\ notified = <<gameState>>
        /\ returned = gameState
        /\ published = <<GameStateBroadcast>>

\* a donation was removed from the active list after the clock had moved on
C14_Witness ==
    /\ lastOp.name = "removeDonation"
    /\ gameState.activeDonations = <<>>
    /\ gameState.lastUpdated > 0

\* the subscribers: the registered clients; their role is the client type
\* they gave
Registered(s) == connectedClients[s].present
RoleOf(s) == IF Registered(s) THEN connectedClients[s].clientType ELSE ""

\* C15: a session-state broadcast, also one caused by a message of the game
\* client, is never delivered to a subscriber that identified itself as the
\* game client (client type "godot-game") and is delivered to every open
\* subscriber that identified itself as an overlay.
C15_BroadcastExclusion ==
    (\E i \in 1..Len(published) : published[i].type = "game_state_broadcast") =>
        \A s \in Sockets :
            /\ RoleOf(s) = "godot-game" =>
                  ~Has(delivered[s], "game_state_broadcast")
            /\ (RoleOf(s) = "overlay" /\ sockets[s] = "OPEN") =>
                  Has(delivered[s], "game_state_broadcast")

\* the message is kept from the subscriber because of its role
RoleExcluded(s, msg) == msg.excludeType # "" /\ RoleOf(s) = msg.excludeType

\* C16: a publish delivers the message exactly once to every open subscriber
\* whose role is not the excluded one, subscribers that have not identified
\* themselves included, whatever happens to the writes to the other
\* subscribers; it is delivered to nobody else.
C16_PublishDelivers ==
    published # <<>> =>
        \A s \in Sockets : \A i \in 1..Len(published) :
            IF sockets[s] = "OPEN" /\ ~RoleExcluded(s, published[i])
            THEN delivered[s] = <<published[i].type>>
            ELSE delivered[s] = <<>>

\* a publish reached an open subscriber of unknown role although the write
\* to a subscriber before it failed
C16_Witness ==
    /\ published # <<>>
    /\ \E s \in Sockets : \E r \in Sockets :
          /\ s < r
          /\ sockets[s] = "BROKEN"
          /\ sockets[r] = "OPEN"
          /\ RoleOf(r) = "unknown"
          /\ Len(delivered[r]) = 1

FoundDead(s) == sockets[s] \in {"BROKEN", "CLOSING"}

\* a publish leaves every subscriber registered whose transport was open
LiveStayRegistered ==
    [][published' # <<>> =>
         \A s \in Sockets :
            (sockets[s] = "OPEN" /\ Registered(s)) => connectedClients'[s].present]_vars

\* C17 as claimed: when a publish returns, no subscriber whose transport is
\* not open or whose write throws is registered any more, and every
\* subscriber that was live still is.
C17_DeadAreRemoved ==
    /\ [](published # <<>> =>
            \A s \in Sockets : FoundDead(s) => ~Registered(s))
    /\ LiveStayRegistered

\* C17 as amended: when a publish returns, no subscriber whose transport is
\* not open or whose write throws is registered any more, unless its role is
\* the one the publish excludes (such a subscriber is skipped before its
\* transport is looked at); every subscriber that was live still is.
C17_DeadAreRemovedUnlessExcluded ==
    /\ [](published # <<>> =>
            \A s \in Sockets :
                (FoundDead(s) /\ Registered(s)) =>
                    \A i \in 1..Len(published) : RoleExcluded(s, published[i]))
    /\ LiveStayRegistered

\* a publish found the transport of one subscriber closing and dropped it
\* from both maps while another subscriber, open, stayed registered
C17_Witness ==
    /\ published # <<>>
    /\ \E s \in Sockets : \E r \in Sockets :
          /\ sockets[s] = "CLOSING"
          /\ ~Registered(s)
          /\ s \notin socketToClient
          /\ sockets[r] = "OPEN"
          /\ Registered(r)

\* the health check evicts the clients that timed out and pings the rest
SweepEvictsAndPings ==
    lastOp.name = "performHealthCheck" =>
        \A s \in Sockets :
            Registered(s) =>
                /\ ~timedOut(connectedClients[s])
                /\ sockets[s] = "OPEN" => s \in pinged

\* C18: a liveness sweep evicts every subscriber that has not responded for
\* longer than the timeout and pings every remaining one; an evicted
\* subscriber is no longer registered and is sent no further broadcast: a
\* broadcast reaches registered subscribers only.
C18_SweepEvicts ==
    /\ SweepEvictsAndPings
    /\ published # <<>> =>
          \A s \in Sockets : delivered[s] # <<>> => Registered(s)

\* a tick that takes a HEAL event from the queue and applies it
HealTick ==
    /\ ~tickSkips
    /\ Head(queue).eventType = "HEAL"
    /\ lastOp'.name = "processNextEvent"
    /\ lastOp'.a = Head(queue).donationId
    /\ queue' = Tail(queue)

\* what a heal of amount a at health h is to do: health min(100, h + a), one
\* broadcast of the state, no admission result, every other field as it was
\* (lastUpdated is the time of the write)
HealedBy(a) ==
    /\ gameState'.knightHealth = Min(100, gameState.knightHealth + a)
    /\ Len(notified') = 1
    /\ Len(published') = 1
    /\ published'[1].type = "game_state_broadcast"
    /\ lastResult' = lastResult
    /\ \A f \in DOMAIN gameState \ {"knightHealth", "lastUpdated"} :
          gameState'[f] = gameState[f]

\* C19: processing a HEAL event with healAmount a, for every non-negative a,
\* at health h sets the health to min(100, h + a), broadcasts the state once,
\* rejects nothing and changes no other field. A healAmount of 0 is the value
\* `healAmount || 25` takes for missing, so a heal of 0 heals 25.
C19_HealAddsAmount ==
    [][(HealTick /\ Head(queue).parameters.healAmount >= 0)
          => HealedBy(Head(queue).parameters.healAmount)]_vars

\* the same for the amounts the processor does not replace by its default
HealAddsPositiveAmount ==
    [][(HealTick /\ Head(queue).parameters.healAmount > 0)
          => HealedBy(Head(queue).parameters.healAmount)]_vars

\* a startGame that finds the game stopped
StartFromStopped ==
    /\ gameState.status = "STOPPED"
    /\ lastOp'.name = "startGame"

\* the state resetGame leaves, running: every field but the two timestamps
\* at its default
Reinitialized(gs) ==
    /\ gs.status = "RUNNING"
    /\ \A f \in DOMAIN gs \ {"status", "startTime", "lastUpdated"} :
          gs[f] = createInitialState(now)[f]

\* C20: startGame from STOPPED leaves the state resetGame leaves, with status
\* RUNNING: health 100, score 0, wave 1, base attack, no boost, no pending
\* spawns, whatever the state held when the game was stopped.
C20_StartReinitializes ==
    [][StartFromStopped => Reinitialized(gameState')]_vars

\* the fields pausing and resuming leave alone
FrameOfPause ==
    {"knightHealth", "knightAttack", "score", "wave", "boostActive",
     "boostExpiry", "pendingEnemySpawns", "activeDonations", "startTime"}

\* C21: pauseGame and resumeGame change only status and lastUpdated: health,
\* attack, score, wave, boost, pending spawns and active donations are what
\* they were, from every state.
C21_PauseResumeFrame ==
    [][lastOp'.name \in {"pauseGame", "resumeGame"}
          => /\ \A f \in FrameOfPause : gameState'[f] = gameState[f]
             /\ gameState'.status =
                   (IF lastOp'.name = "pauseGame" THEN "PAUSED" ELSE "RUNNING")]_vars

\* a game with a boost, a score, a pending spawn and a donation was paused
C21_Witness ==
    /\ lastOp.name = "pauseGame"
    /\ gameState.status = "PAUSED"
    /\ gameState.boostActive
    /\ gameState.score > 0
    /\ gameState.knightHealth < 100
    /\ gameState.pendingEnemySpawns # <<>>
    /\ gameState.activeDonations # <<>>

\* the fields no message of the game client names
FrameOfUpdate ==
    {"knightAttack", "boostActive", "boostExpiry", "pendingEnemySpawns",
     "activeDonations", "startTime"}

\* health, score and wave of gs are within their bounds
ClientFieldsInBounds(gs) ==
    /\ gs.knightHealth >= 0 /\ gs.knightHealth <= 100
    /\ gs.score >= 0
    /\ gs.wave >= 1

\* the step merged the update u field by field: what is present is clamped
\* (a health that clamps to 0 may be replaced by the reset's 100), what is
\* absent is as it was, and no other field moved
MergedClamped(u) ==
    /\ IF u.knightHealth = {}
       THEN gameState'.knightHealth = gameState.knightHealth
       ELSE \/ gameState'.knightHealth = Clamp(0, 100, Val(u.knightHealth))
            \/ /\ Clamp(0, 100, Val(u.knightHealth)) = 0
               /\ gameState'.knightHealth = 100
    /\ gameState'.score =
          (IF u.score = {} THEN gameState.score ELSE Max(0, Val(u.score)))
    /\ gameState'.wave =
          (IF u.wave = {} THEN gameState.wave ELSE Max(1, Val(u.wave)))
    /\ gameState'.status =
          (IF u.status = {} THEN gameState.status ELSE Val(u.status))
    /\ \A f \in FrameOfUpdate : gameState'[f] = gameState[f]

\* the update u is one the step recorded in lastOp may have been given
MayBeUpdate(u) ==
    lastOp'.death = (u.knightHealth # {} /\ Val(u.knightHealth) <= 0)

WellFormed(d) ==
    /\ d.eventType \in EventTypes
    /\ d.donationId # 0
    /\ d.viewerId # ""

\* C23: a malformed donation is rejected before it reaches the queue: every
\* queued event is well-formed, and no cooldown is kept for a kind that is
\* not one of the four.
C23_QueueWellFormed ==
    /\ \A i \in 1..Len(queue) : WellFormed(queue[i])
    /\ DOMAIN cooldowns \subseteq EventTypes

\* a step that is a call of remove
RemoveStep == lastResult' # lastResult /\ lastResult'.op = "remove"

\* the events of q other than those with the id, in their order
Without(q, id) ==
    LET other(d) == d.donationId # id IN SelectSeq(q, other)

\* the event with the id was removed and has not left the queue by dequeue
RemovedNow(id) ==
    /\ lastResult.op = "remove"
    /\ lastResult.success
    /\ lastResult.donationId = id

DequeuedNow(id) ==
    /\ lastResult.op = "dequeue"
    /\ lastResult.success
    /\ lastResult.donationId = id

\* C24: remove(id) returns true exactly when an event with the id was
\* queued; afterwards no queued event has the id and the others are in the
\* order they were; an event once removed is never in the queue again and
\* never comes out of dequeue.
C24_Remove ==
    /\ [][RemoveStep =>
            /\ lastResult'.success = (lastResult'.donationId \in Ids(queue))
            /\ lastResult'.donationId \notin Ids(queue')
            /\ queue' = Without(queue, lastResult'.donationId)
            /\ UNCHANGED <<cooldowns, totalProcessedCount, dequeued>>]_vars
    /\ \A id \in 1..MaxQueued :
          [](RemovedNow(id) => [](id \notin Ids(queue) /\ ~DequeuedNow(id)))

\* the middle one of three queued events was removed
C24_Witness ==
    /\ lastResult.op = "remove"
    /\ lastResult.success
    /\ Len(queue) = 2
    /\ queue[1].donationId < lastResult.donationId
    /\ lastResult.donationId < queue[2].donationId

ScoreAndWaveInBounds(gs) == gs.score >= 0 /\ gs.wave >= 1

\* C25: in every reachable state, stored, returned or handed to the
\* listener, score >= 0 and wave >= 1, whatever updateScore, addScore (with
\* negative points), nextWave, updateFromGame and the resets were given.
C25_ScoreWaveBounds ==
    /\ ScoreAndWaveInBounds(gameState)
    /\ ScoreAndWaveInBounds(returned)
    /\ \A i \in 1..Len(notified) : ScoreAndWaveInBounds(notified[i])

\* addScore took more points off than the score had
C25_Witness ==
    /\ lastOp.name = "addScore"
    /\ gameState.score = 0
    /\ gameState.wave > 1

\* a step in which enqueue or processEvent turned a donation down
RejectStep ==
    /\ lastResult' # lastResult
    /\ lastResult'.op \in {"enqueue", "processEvent"}
    /\ ~lastResult'.success

\* C26: a rejected admission changes nothing: the queue, the cooldown of
\* every kind, the rate limiter's counters and the game state are what they
\* were, and the caller gets a failure with a reason that is not empty.
C26_RejectionIsClean ==
    [][RejectStep =>
          /\ UNCHANGED <<queue, cooldowns, totalProcessedCount>>
          /\ UNCHANGED <<globalState, userStates>>
          /\ UNCHANGED <<gameState, notified>>
          /\ lastResult'.reason # ""]_vars

\* a donation was turned down while its kind was cooling down and another
\* event was waiting
C26_Witness ==
    /\ lastResult.op = "processEvent"
    /\ ~lastResult.success
    /\ lastResult.reason # ""
    /\ queue # <<>>
    /\ now < cooldowns[lastResult.eventType].cooldownUntil

\* the donations the pending spawns of gs come from
Sources(gs) ==
    {gs.pendingEnemySpawns[i].donationId : i \in 1..Len(gs.pendingEnemySpawns)}

BoostOf(gs) == <<gs.boostActive, gs.boostExpiry, gs.knightAttack>>

\* C27: an admitted event is consumed at most once: the tick takes an event
\* that no tick took before and that is in the queue no longer, so no two
\* pending spawns come from the same donation, every pending spawn comes
\* from an event already taken, and no event both adds a spawn and changes
\* the boost.
C27_ConsumedOnce ==
    /\ [](/\ Cardinality(Sources(gameState)) = Len(gameState.pendingEnemySpawns)
          /\ \A id \in Sources(gameState) :
                id \notin Ids(queue) /\ id >= 1 /\ id <= dequeued)
    /\ [][(TickStep /\ lastOp'.a # 0) =>
             /\ lastOp'.a > dequeued
             /\ dequeued' = lastOp'.a
             /\ lastOp'.a \notin Ids(queue')
             /\ totalProcessedCount' = totalProcessedCount + 1
             /\ Len(gameState'.pendingEnemySpawns)
                   <= Len(gameState.pendingEnemySpawns) + 1
             /\ ~(/\ Len(gameState'.pendingEnemySpawns)
                        > Len(gameState.pendingEnemySpawns)
                  /\ BoostOf(gameState') # BoostOf(gameState))]_vars

\* two spawn donations were applied, each once
C27_Witness ==
    /\ Len(gameState.pendingEnemySpawns) = 2
    /\ gameState.pendingEnemySpawns[1].donationId = 1
    /\ gameState.pendingEnemySpawns[2].donationId = 2
    /\ queue = <<>>
    /\ totalProcessedCount = 2

\* a tick that takes a SPAWN_ENEMY or SPAWN_DRAGON event from the queue
SpawnTick ==
    /\ ~tickSkips
    /\ Head(queue).eventType \in {"SPAWN_ENEMY", "SPAWN_DRAGON"}
    /\ lastOp'.name = "processNextEvent"
    /\ lastOp'.a = Head(queue).donationId
    /\ queue' = Tail(queue)

\* the enemy an event asks for
EnemyOf(event) ==
    IF event.eventType = "SPAWN_DRAGON" THEN "DRAGON"
    ELSE IF event.parameters.enemyType = "" THEN "GOBLIN"
    ELSE event.parameters.enemyType

\* the step appended one spawn for the event and changed nothing else
SpawnAppended(event) ==
    LET old == gameState.pendingEnemySpawns
        new == gameState'.pendingEnemySpawns
    IN  /\ Len(new) = Len(old) + 1
        /\ SubSeq(new, 1, Len(old)) = old
        /\ new[Len(new)].enemyType = EnemyOf(event)
        /\ new[Len(new)].donorName = event.viewerName
        /\ new[Len(new)].donationId = event.donationId
        /\ \A f \in DOMAIN gameState \ {"pendingEnemySpawns", "lastUpdated"} :
              gameState'[f] = gameState[f]

\* C28: processing a SPAWN_ENEMY or SPAWN_DRAGON event appends exactly one
\* entry to the end of pendingEnemySpawns, with the event's enemy type
\* (DRAGON for SPAWN_DRAGON), the donor's name and the event's donationId,
\* and changes no other field.
C28_SpawnAppends ==
    [][SpawnTick => SpawnAppended(Head(queue))]_vars

\* the same for the ticks whose overlay alert returns
SpawnAppendsWhenAlerted ==
    [][(SpawnTick /\ lastOp'.b = 1) => SpawnAppended(Head(queue))]_vars

\* C29: whenever the time is at or past boostExpiry the state, as getState
\* hands it out, has the boost inactive: a boost whose time has run out is
\* not reported as active.
C29_BoostExpires ==
    now >= gameState.boostExpiry => ~gameState.boostActive

\* a step that reset the game: resetGame itself, or a health that is 0 or
\* less handed to updateKnightHealth or updateFromGame
ResetStep ==
    /\ lastOp' # lastOp
    /\ \/ lastOp'.name = "resetGame"
       \/ lastOp'.name \in {"updateKnightHealth", "updateFromGame"} /\ lastOp'.death

\* C30: after a reset, by the knight's death or by the admin, the status is
\* RUNNING and the score 0: the game goes on without a start.
C30_ResetKeepsRunning ==
    [][ResetStep => gameState'.status = "RUNNING" /\ gameState'.score = 0]_vars

\* a step of pauseGame, resumeGame or stopGame
LifecycleStep ==
    /\ lastOp' # lastOp \/ gameState'.status # gameState.status
    /\ lastOp'.name \in {"pauseGame", "resumeGame", "stopGame"}

\* the transitions the three operations are documented to make
DocumentedTransition(op, from, to) ==
    \/ op = "pauseGame" /\ from = "RUNNING" /\ to = "PAUSED"
    \/ op = "resumeGame" /\ from = "PAUSED" /\ to = "RUNNING"
    \/ op = "stopGame" /\ from = "RUNNING" /\ to = "STOPPED"

\* C31: pauseGame, resumeGame and stopGame change the status only along
\* RUNNING -> PAUSED, PAUSED -> RUNNING and RUNNING -> STOPPED; from any other
\* status they leave it as it is.
C31_DocumentedTransitions ==
    [][LifecycleStep =>
          \/ gameState'.status = gameState.status
          \/ DocumentedTransition(lastOp'.name, gameState.status,
                                  gameState'.status)]_vars

\* a step that is a tick of the sync service
SyncTickStep == syncOp' = "tick" /\ svcVars' # svcVars

\* C32: every tick of the sync service writes a snapshot to every registered
\* overlay client whose socket is open, whether or not the state has changed
\* since the last tick.
C32_EveryTickRefreshes ==
    [][SyncTickStep => syncOpen \subseteq syncSent']_vars

\* a step that is a call of checkLimit, and one that is a recordDonation
CheckStep ==
    lastCheck' # lastCheck /\ lastCheck'.type \in {"", "user", "global"}

RecordStep ==
    lastCheck'.type = "recordDonation" /\ userStates' # userStates

\* the viewer has used up the per-user limit in the stored window
Exhausted(u) ==
    u \in DOMAIN userStates /\ userStates[u].count >= donationPerUserLimit

\* the stored window of the viewer is over
WindowOver(u) ==
    now - userStates[u].windowStart >= donationRateWindow

\* C33: a per-user rejection is not permanent: a viewer who has used up the
\* limit is rejected while the window lasts and admitted by the first check
\* at or after windowStart + W (the global limit allowing); at that check the
\* viewer's window counts from 0 and starts at the time of the check, and a
\* donation recorded then is the first of the new window.
C33_WindowResets ==
    /\ [][CheckStep =>
            LET u == lastCheck'.userId
            IN  (Exhausted(u) /\ lastCheck'.type # "global") =>
                   IF WindowOver(u)
                   THEN /\ lastCheck'.allowed
                        /\ getUserState(u) = Entry(0, now, now)
                   ELSE ~lastCheck'.allowed /\ lastCheck'.type = "user"]_vars
    /\ [][RecordStep =>
            \A u \in DOMAIN userStates :
               (Exhausted(u) /\ WindowOver(u) /\ userStates'[u] # userStates[u])
                  => userStates'[u] = Entry(1, now, now)]_vars

\* a viewer whose stored window was used up is admitted after the window
C33_Witness ==
    /\ lastCheck.allowed
    /\ Exhausted(lastCheck.userId)
    /\ WindowOver(lastCheck.userId)

\* a step in which enqueue admitted a donation
AdmitStep ==
    /\ lastResult' # lastResult
    /\ lastResult'.op \in {"enqueue", "processEvent"}
    /\ lastResult'.success

\* a step that is a call of resetCooldowns
ResetCooldownsStep ==
    lastResult'.op = "resetCooldowns" /\ lastResult' # lastResult

\* every kind can be admitted at once
AllAdmissible(cd) ==
    \A k \in EventTypes : now >= cd[k].cooldownUntil

WithinUserLimitAt(states, t, u) ==
    IF u \notin DOMAIN states THEN 0 < donationPerUserLimit
    ELSE IF t - states[u].windowStart >= donationRateWindow
         THEN 0 < donationPerUserLimit
         ELSE states[u].count < donationPerUserLimit

\* a step that is a run of the cleanup
CleanupStep ==
    lastCheck'.type \in {"cleanup", "cleanup-removed"} /\ lastCheck' # lastCheck

\* C35: the cleanup removes exactly the entries idle for more than 2W and
\* leaves the others as they are, and it changes no admission decision: now
\* and at every later time, checkLimit decides for every viewer what it
\* would decide had the cleanup run just before.
C35_CleanupIsInvisible ==
    /\ [][CleanupStep =>
            /\ DOMAIN userStates' =
                  {u \in DOMAIN userStates :
                      now - userStates[u].lastRequest <= 2 * donationRateWindow}
            /\ \A u \in DOMAIN userStates' : userStates'[u] = userStates[u]
            /\ UNCHANGED globalState]_vars
    /\ [](\A u \in Viewers : \A t \in LongInstants :
             t >= now =>
                /\ WithinUserLimitAt(userStates, now, u) = isWithinUserLimit(u)
                /\ WithinUserLimitAt(cleanupOldStates, t, u)
                      = WithinUserLimitAt(userStates, t, u))

\* the cleanup removed a viewer's entry and kept another's
C35_Witness ==
    /\ lastCheck.type = "cleanup-removed"
    /\ userStates # <<>>
    /\ DOMAIN userStates # Viewers

\* C36: a socket that connects, for the first time or again, is written the
\* current state in the connection handler itself, so what it holds when
\* the handler returns is the state the server has at that moment, whatever
\* it held before and however many broadcasts it missed
ConnectStep(s) == sockets[s] = "NONE" /\ sockets'[s] = "OPEN"

InQueue(d) == \E i \in 1..Len(queue) : queue[i].donationId = d

Applied(d) ==
    lastOp.name = "processNextEvent" /\ lastOp.a = d /\ lastOp.b = 1

C37_QueueLiveness ==
    \A d \in 1..MaxPipeline : InQueue(d) ~> Applied(d)

\* what holds of the drain: every queued event is eventually dequeued, a
\* tick that is not skipped takes the head of the queue, the queue is empty
\* again and again, and the in-flight guard is always cleared
QueueDrains ==
    /\ \A d \in 1..(MaxPipeline + 1) : InQueue(d) ~> (dequeued = d /\ ~InQueue(d))
    /\ [][(TickStep /\ ~tickSkips) =>
             /\ queue' = Tail(queue)
             /\ dequeued' = Head(queue).donationId]_vars
    /\ []<>(queue = <<>>)
    /\ isProcessing ~> ~isProcessing

\* C38: a viewer can exceed the per-user limit across a window boundary,
\* but by no more than a factor of two: of the donations of one viewer that
\* passed checkLimit and were recorded, at most 2 * donationPerUserLimit
\* fall in any interval of length donationRateWindow, whether or not the
\* cleanup has removed the viewer's entry in between
PassesWithin(u, i, j) ==
    /\ i <= j
    /\ passTimes[u][j] - passTimes[u][i] <= donationRateWindow

C38_BurstBound ==
    \A u \in Viewers : \A i, j \in 1..Len(passTimes[u]) :
        PassesWithin(u, i, j) => j - i + 1 <= 2 * donationPerUserLimit

\* a viewer got twice the limit through within one window length, and its
\* entry was removed by the cleanup later on
C38_Witness ==
    /\ lastCheck.type = "cleanup-removed"
    /\ \E u \in Viewers : \E i, j \in 1..Len(passTimes[u]) :
          /\ PassesWithin(u, i, j)
          /\ j - i + 1 = 2 * donationPerUserLimit
          /\ u \notin DOMAIN userStates

\* C39: processQueue is safe against re-entrant calls. At most one handler
\* invocation is in flight; the events are handed to the handler once each
\* and in the order of the queue; the flag is set exactly while a handler is
\* in flight; a call that finds a drain running changes nothing; when a
\* handler settles, by returning or by throwing, the next queued event is
\* handed over at once; and a drain ends only on an empty queue, so what
\* was enqueued while it ran was handled by it.
DrainStep == drainOp' \in {"returned", "threw"} /\ drainVars' # drainVars

C39_ReentrancySafe ==
    /\ [](Cardinality(inFlight) <= 1)
    /\ [](\A i, j \in 1..Len(handled) : i < j => handled[i] < handled[j])
    /\ [](processing <=> inFlight # {})
    /\ [](\A i \in 1..Len(queue) : ~Has(handled, queue[i].donationId))
    /\ [][(drainOp' = "busy" /\ drainOp # "busy") =>
             UNCHANGED <<queue, processing, inFlight, handled>>]_vars
    /\ [][DrainStep =>
             IF queue = <<>>
             THEN ~processing' /\ handled' = handled
             ELSE /\ processing'
                  /\ queue' = Tail(queue)
                  /\ handled' = Append(handled, Head(queue).donationId)]_vars
    /\ [][(processing /\ ~processing') => queue' = <<>>]_vars

\* a handler threw and the drain went on: it has handed the next event
\* over and yet another one is waiting
C39_Witness ==
    /\ drainOp = "threw"
    /\ Len(handled) >= 2
    /\ processing
    /\ queue # <<>>

\* C40: a responsive subscriber is never evicted. A pong or a message of a
\* registered client refreshes its lastPing; a client whose lastPing is no
\* older than one sweep period stays registered through the sweep; and a
\* client is evicted only when more than two sweep periods have gone by
\* since its last pong or message.
HealthCheckStep == lastOp'.name = "performHealthCheck"

AnswerStep(s, names) ==
    /\ lastOp'.name \in names
    /\ lastOp'.sender = s
    /\ Registered(s)

Refreshed(s) ==
    /\ connectedClients'[s].present
    /\ connectedClients'[s].lastPing = now

SweepSparesResponsive ==
    [][HealthCheckStep =>
          \A s \in Sockets :
              /\ (Registered(s) /\ now - connectedClients[s].lastPing <= pingInterval)
                    => connectedClients'[s].present
              /\ (Registered(s) /\ ~connectedClients'[s].present)
                    => now - connectedClients[s].lastPing > 2 * pingInterval]_vars

C40_ResponsiveStays ==
    /\ SweepSparesResponsive
    /\ [][\A s \in Sockets :
             AnswerStep(s, {"handlePong", "handleClientInfo", "handleMessage"})
                 => Refreshed(s)]_vars

\* C40, amended: only a pong or a message that parses as JSON counts as an
\* answer
C40_ParsedMessageRefreshes ==
    /\ SweepSparesResponsive
    /\ [][\A s \in Sockets :
             AnswerStep(s, {"handlePong", "handleClientInfo"}) => Refreshed(s)]_vars

\* the third sweep has evicted a client that stayed silent and kept one
\* that answered the ping of the sweep before
C40_Witness ==
    /\ lastOp.name = "performHealthCheck"
    /\ now = 3 * pingInterval
    /\ \E s, r \in Sockets :
          /\ Registered(s)
          /\ connectedClients[s].lastPing >= now - pingInterval
          /\ sockets[r] # "NONE"
          /\ ~Registered(r)

====
